---- MODULE Spec2Model ----
(***************************************************************************)
(* Model of the Salem 1692 moderator engine: the dealer, the win-condition *)
(* evaluator, the action processor, the phase state machine and the host's *)
(* message handling, translated from the TypeScript sources.               *)
(*                                                                         *)
(* Conventions.  Entity ids, names and card ids are integers; the null id  *)
(* is NullId, the guard sentinel 'SKIP' is SkipId.  An optional record     *)
(* (pendingAccusation, nightDamageSelection) is a sequence of length 0 or  *)
(* 1.  A log entry is the triple <<text, a, b>> of the message template    *)
(* and the entities it names; its id and timestamp are not modelled.       *)
(* Math.random() is an explicit argument u, standing for the fraction      *)
(* u / RandDen, so Math.floor(Math.random() * n) is RandIndex(u, n).       *)
(***************************************************************************)
EXTENDS Integers, Sequences, FiniteSets, TLC

VARIABLES
    gameState,   \* the host's authoritative GameState (React state of App)
    isHost,      \* App's isHost flag
    wire,        \* the messages the host handed to the transport in the last step
    deck,        \* the deck of card types generateDeck is producing / has produced
    shuffleIdx,  \* loop index i of the Fisher-Yates shuffle in progress (1-based)
    ops,         \* number of engine operations applied so far (bounded exploration)
    net,         \* number of lobby and network events handled so far
    hist         \* history, oldest first: the witch votes applied (VoteSpec), the
                 \* targets of partial night attacks (NightSpec)

vars == <<gameState, isHost, wire, deck, shuffleIdx, ops, net, hist>>

----------------------------------------------------------------------------
(* Bounds of the exploration *)

MaxPlayers == 4     \* real participants that may sit in the lobby
RandDen == 4        \* Math.random() returns one of 0/RandDen .. (RandDen-1)/RandDen
MaxWinOps == 4      \* reveal / kill / transfer steps explored by WinSpec
MaxNet == 1         \* messages and seating moves, other than the JOIN of a new
                    \* participant, explored by Spec and LobbySpec
MaxTurn == 2        \* turns after which Spec stops resolving nights
MaxOps == 2         \* state-changing engine operations explored by EngineSpec
MaxNights == 3       \* turns after which NightSpec stops resolving nights
MaxVotes == 3        \* applied witch votes explored by VoteSpec
StrangerId == 9     \* a connection id that belongs to no participant

(* Program constants *)

MIN_PLAYERS == 2
MinTable == 4       \* first row of TRYAL_CARD_DISTRIBUTION
MaxTable == 12      \* last row of TRYAL_CARD_DISTRIBUTION

NullId == 0
SkipId == -1
HostId == 1
GhostBase == 100
Broadcast == -2

WITCH == "WITCH"
CONSTABLE == "CONSTABLE"
NOT_A_WITCH == "NOT_A_WITCH"
MASKED == "null"
CardType == {NOT_A_WITCH, WITCH, CONSTABLE}

LOBBY == "LOBBY"
SETUP == "SETUP"
NIGHT_INITIAL_WITCH == "NIGHT_INITIAL_WITCH"
DAY == "DAY"
CONSPIRACY == "CONSPIRACY"
NIGHT_WITCH_VOTE == "NIGHT_WITCH_VOTE"
NIGHT_CONSTABLE == "NIGHT_CONSTABLE"
NIGHT_CONFESSION == "NIGHT_CONFESSION"
NIGHT_RESOLUTION == "NIGHT_RESOLUTION"
GAME_OVER == "GAME_OVER"

TOWN_WIN == "TOWN_WIN"
WITCH_WIN == "WITCH_WIN"
NoWin == "null"

----------------------------------------------------------------------------
(* Sequence helpers (Array.prototype.filter / some / every / findIndex) *)

Range(s) == {s[i] : i \in 1..Len(s)}

RECURSIVE FlatCards(_)
FlatCards(players) ==
    IF players = <<>> THEN <<>>
    ELSE Head(players).cards \o FlatCards(Tail(players))

CountType(cards, t) == Cardinality({i \in 1..Len(cards) : cards[i].type = t})

CountOf(types, t) == Cardinality({i \in 1..Len(types) : types[i] = t})

RandIndex(u, n) == (u * n) \div RandDen

\* the values u a draw of Math.random() may take
Rand == 0..(RandDen - 1)

----------------------------------------------------------------------------
(* Dealer: src/unnamed/part_001 (utils/gameLogic) *)

TRYAL_CARD_DISTRIBUTION(n) ==
    CASE n = 4  -> [notAWitch |-> 18, witch |-> 1, constable |-> 1]
      [] n = 5  -> [notAWitch |-> 23, witch |-> 1, constable |-> 1]
      [] n = 6  -> [notAWitch |-> 27, witch |-> 2, constable |-> 1]
      [] n = 7  -> [notAWitch |-> 32, witch |-> 2, constable |-> 1]
      [] n = 8  -> [notAWitch |-> 29, witch |-> 2, constable |-> 1]
      [] n = 9  -> [notAWitch |-> 33, witch |-> 2, constable |-> 1]
      [] n = 10 -> [notAWitch |-> 27, witch |-> 2, constable |-> 1]
      [] n = 11 -> [notAWitch |-> 30, witch |-> 2, constable |-> 1]
      [] n = 12 -> [notAWitch |-> 33, witch |-> 2, constable |-> 1]

getCardsPerPlayer(playerCount) ==
    IF playerCount <= 7 THEN 5
    ELSE IF playerCount <= 9 THEN 4
    ELSE 3

Repeat(t, k) == [i \in 1..k |-> t]

\* generateDeck before its final shuffle(deck)
generateDeckTypes(playerCount) ==
    IF playerCount \in MinTable..MaxTable
    THEN LET d == TRYAL_CARD_DISTRIBUTION(playerCount)
         IN Repeat(WITCH, d.witch) \o Repeat(CONSTABLE, d.constable)
              \o Repeat(NOT_A_WITCH, d.notAWitch)
    ELSE LET witchCount == IF playerCount > 5 THEN 2 ELSE 1
             constableCount == 1
             totalCards == playerCount * getCardsPerPlayer(playerCount)
             townCount == totalCards - witchCount - constableCount
         IN Repeat(WITCH, witchCount) \o Repeat(CONSTABLE, constableCount)
              \o Repeat(NOT_A_WITCH, townCount)

\* mutant of SwapAt: newArray[i] = newArray[j] without the write to newArray[j]
SwapAtLossy(a, i, j) ==
    [k \in 1..Len(a) |-> IF k = i THEN a[j] ELSE a[k]]

\* [newArray[i], newArray[j]] = [newArray[j], newArray[i]]
SwapAt(a, i, j) ==
    [k \in 1..Len(a) |-> IF k = i THEN a[j] ELSE IF k = j THEN a[i] ELSE a[k]]

\* the Fisher-Yates loop from (1-based) index i down to 2, every draw returning u
RECURSIVE ShuffleFrom(_, _, _)
ShuffleFrom(a, i, u) ==
    IF i <= 1 THEN a
    ELSE ShuffleFrom(SwapAt(a, i, RandIndex(u, i) + 1), i - 1, u)

shuffle(array, u) == ShuffleFrom(array, Len(array), u)

generateDeck(playerCount, u) == shuffle(generateDeckTypes(playerCount), u)

createCard(id, type) == [id |-> id, type |-> type, isRevealed |-> FALSE]

\* distributeCards after generateDeck: player k (1-based) takes the next
\* cardsPerPlayer deck entries; the i-th card created has id i
distributeCardsFrom(players, deckTypes) ==
    LET cardsPerPlayer == getCardsPerPlayer(Len(players))
        HandOf(k) == [i \in 1..cardsPerPlayer |->
                        createCard((k - 1) * cardsPerPlayer + i,
                                   deckTypes[(k - 1) * cardsPerPlayer + i])]
    IN [k \in 1..Len(players) |->
          [players[k] EXCEPT
             !.cards = HandOf(k),
             !.hasRevealedWitch = \E i \in 1..cardsPerPlayer : HandOf(k)[i].type = WITCH]]

distributeCards(players, u) ==
    distributeCardsFrom(players, generateDeck(Len(players), u))

----------------------------------------------------------------------------
(* Win-condition evaluator: src/unnamed/part_001 checkWinCondition *)

AllRevealed(cards) == \A i \in 1..Len(cards) : cards[i].isRevealed

IsAlive(p) == ~p.isDead
IsReal(p) == ~p.isGhost

\* mutant of checkWinSmall: the WITCH card is looked for in living entities' hands only
checkWinSmallAliveOnly(players) ==
    LET all == FlatCards(SelectSeq(players, IsAlive))
        witchIdx == {i \in 1..Len(all) : all[i].type = WITCH}
        witchRevealed ==
            witchIdx # {} /\
            all[CHOOSE i \in witchIdx : \A k \in witchIdx : i <= k].isRevealed
        anyEliminated ==
            \E k \in 1..Len(players) :
                Len(players[k].cards) > 0 /\ AllRevealed(players[k].cards)
        realPlayers == SelectSeq(players, IsReal)
        allRealPlayersAreWitches ==
            Len(realPlayers) > 0 /\
            \A k \in 1..Len(realPlayers) : realPlayers[k].hasRevealedWitch
    IN IF witchRevealed THEN TOWN_WIN
       ELSE IF anyEliminated THEN WITCH_WIN
       ELSE IF allRealPlayersAreWitches THEN WITCH_WIN
       ELSE NoWin

\* mutant of checkWinSmall: the elimination check is made before the WITCH-card check
checkWinSmallEliminatedFirst(players) ==
    LET all == FlatCards(players)
        witchIdx == {i \in 1..Len(all) : all[i].type = WITCH}
        witchRevealed ==
            witchIdx # {} /\
            all[CHOOSE i \in witchIdx : \A k \in witchIdx : i <= k].isRevealed
        anyEliminated ==
            \E k \in 1..Len(players) :
                Len(players[k].cards) > 0 /\ AllRevealed(players[k].cards)
        realPlayers == SelectSeq(players, IsReal)
        allRealPlayersAreWitches ==
            Len(realPlayers) > 0 /\
            \A k \in 1..Len(realPlayers) : realPlayers[k].hasRevealedWitch
    IN IF anyEliminated THEN WITCH_WIN
       ELSE IF witchRevealed THEN TOWN_WIN
       ELSE IF allRealPlayersAreWitches THEN WITCH_WIN
       ELSE NoWin

checkWinSmall(players) ==
    LET all == FlatCards(players)
        witchIdx == {i \in 1..Len(all) : all[i].type = WITCH}
        \* find(): the first WITCH card in roster order, undefined if none
        witchRevealed ==
            witchIdx # {} /\
            all[CHOOSE i \in witchIdx : \A k \in witchIdx : i <= k].isRevealed
        anyEliminated ==
            \E k \in 1..Len(players) :
                Len(players[k].cards) > 0 /\ AllRevealed(players[k].cards)
        realPlayers == SelectSeq(players, IsReal)
        allRealPlayersAreWitches ==
            Len(realPlayers) > 0 /\
            \A k \in 1..Len(realPlayers) : realPlayers[k].hasRevealedWitch
    IN IF witchRevealed THEN TOWN_WIN
       ELSE IF anyEliminated THEN WITCH_WIN
       ELSE IF allRealPlayersAreWitches THEN WITCH_WIN
       ELSE NoWin

\* mutant of checkWinStandard: townTeamAlive.length === 1 instead of === 0
checkWinStandardParity(players) ==
    LET alivePlayers == SelectSeq(players, IsAlive)
        aliveCards == FlatCards(alivePlayers)
        activeWitchCards ==
            {i \in 1..Len(aliveCards) :
                aliveCards[i].type = WITCH /\ ~aliveCards[i].isRevealed}
        townTeamAlive ==
            {k \in 1..Len(alivePlayers) : ~alivePlayers[k].hasRevealedWitch}
    IN IF activeWitchCards = {} THEN TOWN_WIN
       ELSE IF Cardinality(townTeamAlive) = 1 THEN WITCH_WIN
       ELSE NoWin

\* mutant of checkWinStandard: the witch-team check is made before the WITCH-card check
checkWinStandardWitchFirst(players) ==
    LET alivePlayers == SelectSeq(players, IsAlive)
        aliveCards == FlatCards(alivePlayers)
        activeWitchCards ==
            {i \in 1..Len(aliveCards) :
                aliveCards[i].type = WITCH /\ ~aliveCards[i].isRevealed}
        townTeamAlive ==
            {k \in 1..Len(alivePlayers) : ~alivePlayers[k].hasRevealedWitch}
    IN IF townTeamAlive = {} THEN WITCH_WIN
       ELSE IF activeWitchCards = {} THEN TOWN_WIN
       ELSE NoWin

checkWinStandard(players) ==
    LET alivePlayers == SelectSeq(players, IsAlive)
        aliveCards == FlatCards(alivePlayers)
        activeWitchCards ==
            {i \in 1..Len(aliveCards) :
                aliveCards[i].type = WITCH /\ ~aliveCards[i].isRevealed}
        townTeamAlive ==
            {k \in 1..Len(alivePlayers) : ~alivePlayers[k].hasRevealedWitch}
    IN IF activeWitchCards = {} THEN TOWN_WIN
       ELSE IF townTeamAlive = {} THEN WITCH_WIN
       ELSE NoWin

checkWinCondition(players, isSmallGameMode) ==
    IF isSmallGameMode THEN checkWinSmall(players) ELSE checkWinStandard(players)

----------------------------------------------------------------------------
(* Entities and the initial state: src/constants.ts, src/App.tsx *)

INITIAL_GAME_STATE ==
    [phase |-> LOBBY,
     players |-> <<>>,
     logs |-> <<>>,
     nightKillTargetId |-> NullId,
     constableGuardId |-> NullId,
     turnCounter |-> 0,
     witchVotes |-> <<>>,
     pendingAccusation |-> <<>>,
     conspiracySelections |-> <<>>,
     nightConfirmations |-> <<>>,
     fakeVotes |-> <<>>,
     isSmallGameMode |-> FALSE,
     nightDamageSelection |-> <<>>]

\* the Player literal of JOIN / REJOIN / Create Room
newPlayer(id, name, peerId, host) ==
    [id |-> id, name |-> name, peerId |-> peerId, isHost |-> host,
     isDead |-> FALSE, hasBlackCat |-> FALSE, cards |-> <<>>,
     hasRevealedWitch |-> FALSE, immune |-> FALSE,
     isDisconnected |-> FALSE, isGhost |-> FALSE]

createGhost(k) ==
    [id |-> GhostBase + k, name |-> GhostBase + k, peerId |-> NullId, isHost |-> FALSE,
     isDead |-> FALSE, hasBlackCat |-> FALSE, cards |-> <<>>,
     hasRevealedWitch |-> FALSE, immune |-> FALSE,
     isDisconnected |-> FALSE, isGhost |-> TRUE]

\* a lobby roster of n real participants: the host, then the joiners in order
LobbyRoster(n) == [k \in 1..n |-> newPlayer(k, k, k, k = HostId)]

----------------------------------------------------------------------------
(* DealSpec: generateDeck and distributeCards, the Fisher-Yates shuffle     *)
(* taken one loop iteration at a time with every possible draw.            *)

DealInit ==
    /\ \E n \in MinTable..MaxTable :
         /\ gameState = [INITIAL_GAME_STATE EXCEPT !.players = LobbyRoster(n)]
         /\ deck = generateDeckTypes(n)
    /\ shuffleIdx = Len(deck)
    /\ isHost = TRUE
    /\ wire = {}
    /\ ops = 0
    /\ net = 0
    /\ hist = <<>>

\* the draws of one loop iteration; a draw j with deck[j] = deck[i] swaps two equal
\* card types and is represented by the draw j = i, which yields the same array
Draws(a, i) == {j \in 1..i : j = i \/ a[j] # a[i]}

DealShuffleStep ==
    /\ shuffleIdx > 1
    /\ \E j \in Draws(deck, shuffleIdx) : deck' = SwapAt(deck, shuffleIdx, j)
    /\ shuffleIdx' = shuffleIdx - 1
    /\ UNCHANGED <<gameState, isHost, wire, ops, net, hist>>

DealDistribute ==
    /\ shuffleIdx = 1
    /\ shuffleIdx' = 0
    /\ gameState' = [gameState EXCEPT
                       !.players = distributeCardsFrom(gameState.players, deck)]
    /\ UNCHANGED <<isHost, wire, deck, ops, net, hist>>

DealNext == DealShuffleStep \/ DealDistribute

DealSpec == DealInit /\ [][DealNext]_vars

----------------------------------------------------------------------------
(* Roster helpers shared by the action processor and the phase machine *)

Ids(players) == {players[k].id : k \in 1..Len(players)}

\* Array.prototype.findIndex on ids, 1-based; 0 stands for -1
IndexOfId(seq, id) ==
    IF \E k \in 1..Len(seq) : seq[k].id = id
    THEN CHOOSE k \in 1..Len(seq) :
            seq[k].id = id /\ \A m \in 1..(k - 1) : seq[m].id # id
    ELSE 0

HasId(seq, id) == IndexOfId(seq, id) # 0

\* Array.prototype.find on ids; only used where HasId holds
FindById(seq, id) == seq[IndexOfId(seq, id)]

aliveEntities(players) == SelectSeq(players, IsAlive)

IsHidden(c) == ~c.isRevealed

hiddenCards(cards) == SelectSeq(cards, IsHidden)

IsShown(c) == c.isRevealed

revealedCards(cards) == SelectSeq(cards, IsShown)

RevealAll(cards) == [i \in 1..Len(cards) |-> [cards[i] EXCEPT !.isRevealed = TRUE]]

\* the first hidden card of type t in a hand, 0 if there is none
FirstHidden(cards, t) ==
    LET idx == {i \in 1..Len(cards) : cards[i].type = t /\ ~cards[i].isRevealed}
    IN IF idx = {} THEN 0 ELSE CHOOSE i \in idx : \A k \in idx : i <= k

\* the left neighbour as the conspiracy code finds it: the previous entry of the
\* living ring, the last one for the first (and for an id not in the ring)
LeftNeighborIndex(alive, id) ==
    LET receiverIndex == IndexOfId(alive, id)
    IN IF receiverIndex - 1 < 1 THEN Len(alive) ELSE receiverIndex - 1

\* mutant of ApplyTransfer: toCards.push(card) without fromCards.splice(cardIndex, 1)
ApplyTransferCopy(cardsMap, tr) ==
    IF tr.fromPlayerId \in DOMAIN cardsMap /\ tr.toPlayerId \in DOMAIN cardsMap
    THEN LET fromCards == cardsMap[tr.fromPlayerId]
             cardIndex == IndexOfId(fromCards, tr.cardId)
         IN IF cardIndex # 0
            THEN [cardsMap EXCEPT ![tr.toPlayerId] = Append(@, fromCards[cardIndex])]
            ELSE cardsMap
    ELSE cardsMap

\* one iteration of the transfer loop on playerCardsMap (a function id -> cards)
ApplyTransfer(cardsMap, tr) ==
    IF tr.fromPlayerId \in DOMAIN cardsMap /\ tr.toPlayerId \in DOMAIN cardsMap
    THEN LET fromCards == cardsMap[tr.fromPlayerId]
             cardIndex == IndexOfId(fromCards, tr.cardId)
         IN IF cardIndex # 0
            THEN LET card == fromCards[cardIndex]
                     spliced == [i \in 1..(Len(fromCards) - 1) |->
                                   IF i < cardIndex THEN fromCards[i] ELSE fromCards[i + 1]]
                     afterSplice == [cardsMap EXCEPT ![tr.fromPlayerId] = spliced]
                 IN [afterSplice EXCEPT ![tr.toPlayerId] = Append(@, card)]
            ELSE cardsMap
    ELSE cardsMap

\* does iteration tr of the loop, run on cardsMap, push its receiver to newWitchPlayerIds
TransferInfects(cardsMap, tr) ==
    /\ tr.fromPlayerId \in DOMAIN cardsMap /\ tr.toPlayerId \in DOMAIN cardsMap
    /\ LET cardIndex == IndexOfId(cardsMap[tr.fromPlayerId], tr.cardId)
       IN cardIndex # 0 /\ cardsMap[tr.fromPlayerId][cardIndex].type = WITCH

RECURSIVE ExecuteTransfers(_, _)
ExecuteTransfers(cardsMap, transfers) ==
    IF transfers = <<>> THEN cardsMap
    ELSE ExecuteTransfers(ApplyTransfer(cardsMap, Head(transfers)), Tail(transfers))

RECURSIVE NewWitchPlayerIds(_, _)
NewWitchPlayerIds(cardsMap, transfers) ==
    IF transfers = <<>> THEN {}
    ELSE (IF TransferInfects(cardsMap, Head(transfers))
          THEN {Head(transfers).toPlayerId} ELSE {})
         \cup NewWitchPlayerIds(ApplyTransfer(cardsMap, Head(transfers)), Tail(transfers))

\* playerCardsMap: the last entry wins for a repeated id, as Map.set does
PlayerCardsMap(players) ==
    [id \in Ids(players) |->
        players[CHOOSE k \in 1..Len(players) :
                   players[k].id = id /\ \A m \in (k + 1)..Len(players) : players[m].id # id].cards]

\* the transfers executed and written back to the roster, each hand shuffled
\* applyTransfers without the update of hasRevealedWitch
applyTransfersNoFlag(players, transfers, u) ==
    LET start == PlayerCardsMap(players)
        final == ExecuteTransfers(start, transfers)
    IN [k \in 1..Len(players) |->
          [players[k] EXCEPT !.cards = shuffle(final[players[k].id], u)]]

applyTransfers(players, transfers, u) ==
    LET start == PlayerCardsMap(players)
        final == ExecuteTransfers(start, transfers)
        newWitch == NewWitchPlayerIds(start, transfers)
    IN [k \in 1..Len(players) |->
          [players[k] EXCEPT
             !.cards = shuffle(final[players[k].id], u),
             !.hasRevealedWitch = players[k].hasRevealedWitch \/ players[k].id \in newWitch]]

----------------------------------------------------------------------------
(* startGame: src/App.tsx *)

\* mutant of withGhosts: both ghosts of a 2-participant game sit after the
\* real seats
withGhostsAppended(players) ==
    IF Len(players) = 2
    THEN players \o <<createGhost(1), createGhost(2)>>
    ELSE IF Len(players) = 3 THEN players \o <<createGhost(1)>>
    ELSE players

\* allEntities of startGame: the roster with the ghosts of a 2- or 3-player game
withGhosts(players) ==
    IF Len(players) = 2
    THEN <<players[1], createGhost(1), players[2], createGhost(2)>>
    ELSE IF Len(players) = 3 THEN players \o <<createGhost(1)>>
    ELSE players

startGame(state, u) ==
    IF Len(state.players) < MIN_PLAYERS THEN state
    ELSE LET n == Len(state.players)
             isSmallGame == n <= 3
             allEntities == withGhosts(state.players)
             playersWithCards == distributeCards(allEntities, u)
             startMessage ==
                 IF isSmallGame
                 THEN <<"Small Game Started. Cards distributed.", n, Len(allEntities) - n>>
                 ELSE <<"Game Started. Cards distributed.", NullId, NullId>>
         IN [state EXCEPT
               !.phase = SETUP,
               !.players = playersWithCards,
               !.isSmallGameMode = isSmallGame,
               !.fakeVotes = <<>>,
               !.logs = Append(@, startMessage)]

----------------------------------------------------------------------------
(* Action processor: src/logic/actionHandlers.ts processPlayerAction.       *)
(* Each branch is an operator from the state to `updates' (logs included);  *)
(* processPlayerAction adds the closing win check.                         *)

createLog(text, a, b) == <<text, a, b>>

WinLog(win) ==
    createLog(IF win = TOWN_WIN THEN "Town Win!" ELSE "Witches Win!", NullId, NullId)

\* the payload of an ACTION message; a field a kind does not read is NullId / {}
NoData ==
    [targetId |-> NullId, cardId |-> NullId, cardIds |-> {}, fakeTargetId |-> NullId,
     ghostId |-> NullId, forPlayerId |-> NullId]

\* if (!updates.nightConfirmations.includes(playerId)) push
confirm(state, playerId) ==
    IF playerId \in Range(state.nightConfirmations) THEN state
    ELSE [state EXCEPT !.nightConfirmations = Append(@, playerId)]

RevealedText(type) ==
    CASE type = WITCH -> "revealed WITCH!"
      [] type = CONSTABLE -> "revealed CONSTABLE!"
      [] OTHER -> "revealed NOT_A_WITCH!"

actAccuseStart(state, playerId, data) ==
    IF /\ HasId(state.players, playerId)
       /\ HasId(state.players, data.targetId)
       /\ ~FindById(state.players, data.targetId).isDead
    THEN LET accuser == FindById(state.players, playerId)
             target == FindById(state.players, data.targetId)
         IN [state EXCEPT
               !.pendingAccusation =
                   <<[accuserId |-> playerId, accuserName |-> accuser.name,
                      targetId |-> data.targetId, targetName |-> target.name,
                      accepted |-> target.isGhost]>>,
               !.logs = @ \o <<createLog("accuses", accuser.name, target.name)>>
                          \o (IF target.isGhost
                              THEN <<createLog("The ghost cannot object...", NullId, NullId)>>
                              ELSE <<>>)]
    ELSE state

actAccuseAccept(state, playerId) ==
    IF state.pendingAccusation # <<>> /\ state.pendingAccusation[1].targetId = playerId
    THEN [state EXCEPT
            !.pendingAccusation[1].accepted = TRUE,
            !.logs = Append(@, createLog("accepts the accusation.",
                                         state.pendingAccusation[1].targetName, NullId))]
    ELSE state

actAccuseCancel(state) ==
    IF state.pendingAccusation # <<>>
    THEN [state EXCEPT
            !.logs = Append(@, createLog("Accusation was withdrawn.",
                                         state.pendingAccusation[1].targetName, NullId)),
            !.pendingAccusation = <<>>]
    ELSE state

actAccuseReveal(state, playerId, data) ==
    IF /\ state.pendingAccusation # <<>>
       /\ state.pendingAccusation[1].accepted
       /\ state.pendingAccusation[1].accuserId = playerId
       /\ HasId(state.players, state.pendingAccusation[1].targetId)
    THEN LET k == IndexOfId(state.players, state.pendingAccusation[1].targetId)
             targetPlayer == state.players[k]
             i == IndexOfId(targetPlayer.cards, data.cardId)
         IN IF i # 0 /\ ~targetPlayer.cards[i].isRevealed
            THEN LET card == targetPlayer.cards[i]
                     shown == [targetPlayer.cards EXCEPT ![i].isRevealed = TRUE]
                     isWitch == card.type = WITCH
                     dies == isWitch \/ AllRevealed(shown)
                 IN [state EXCEPT
                       !.players[k].cards = IF isWitch THEN RevealAll(shown) ELSE shown,
                       !.players[k].isDead = IF dies THEN TRUE ELSE @,
                       !.logs = @ \o <<createLog(RevealedText(card.type),
                                                 targetPlayer.name, NullId)>>
                                  \o (IF isWitch
                                      THEN <<createLog("WITCH_FOUND_MESSAGES",
                                                       targetPlayer.name, NullId)>>
                                      ELSE IF dies
                                      THEN <<createLog("ALL_CARDS_REVEALED_MESSAGES",
                                                       targetPlayer.name, NullId)>>
                                      ELSE <<>>),
                       !.pendingAccusation = <<>>]
            ELSE state
    ELSE state

\* mutant of actNightConfirm: the fake vote is tallied on every NIGHT_CONFIRM,
\* the confirmation itself recorded once
actNightConfirmTally(state, playerId, data) ==
    LET confirmed == confirm(state, playerId)
        t == data.fakeTargetId
    IN IF t # NullId
       THEN [confirmed EXCEPT
               !.fakeVotes = [id \in (DOMAIN @) \cup {t} |->
                                IF id = t
                                THEN (IF t \in DOMAIN @ THEN @[t] ELSE 0) + 1
                                ELSE @[id]]]
       ELSE confirmed

\* fakeVotes is a function from the ids voted for to their counts
actNightConfirm(state, playerId, data) ==
    IF playerId \in Range(state.nightConfirmations) THEN state
    ELSE LET confirmed == confirm(state, playerId)
             t == data.fakeTargetId
         IN IF t # NullId
            THEN [confirmed EXCEPT
                    !.fakeVotes = [id \in (DOMAIN @) \cup {t} |->
                                     IF id = t
                                     THEN (IF t \in DOMAIN @ THEN @[t] ELSE 0) + 1
                                     ELSE @[id]]]
            ELSE confirmed

IsLivingGhostWitch(p) == p.isGhost /\ p.hasRevealedWitch /\ ~p.isDead

\* the votes of the ghost witches that have none yet, appended in roster order
RECURSIVE GhostVotes(_, _, _, _)
GhostVotes(votes, ghosts, targetId, targetName) ==
    IF ghosts = <<>> THEN votes
    ELSE LET ghost == Head(ghosts)
             next == IF \E i \in 1..Len(votes) : votes[i].voterId = ghost.id
                     THEN votes
                     ELSE Append(votes, [voterId |-> ghost.id, witchName |-> ghost.name,
                                         targetId |-> targetId, targetName |-> targetName])
         IN GhostVotes(next, Tail(ghosts), targetId, targetName)

\* mutant of castWitchVote: the vote is appended without removing the voter's
\* earlier vote
castWitchVoteAppend(state, playerId, data) ==
    LET voter == FindById(state.players, playerId)
        target == FindById(state.players, data.targetId)
        own == [voterId |-> playerId, witchName |-> voter.name,
                targetId |-> data.targetId, targetName |-> target.name]
        ghostWitches == SelectSeq(state.players, IsLivingGhostWitch)
    IN GhostVotes(Append(state.witchVotes, own), ghostWitches, data.targetId, target.name)

\* the part BLACK_CAT and KILL_VOTE share: the voter's vote replaces its earlier one
castWitchVote(state, playerId, data) ==
    LET voter == FindById(state.players, playerId)
        target == FindById(state.players, data.targetId)
        existingVotes == SelectSeq(state.witchVotes, LAMBDA v : v.voterId # playerId)
        own == [voterId |-> playerId, witchName |-> voter.name,
                targetId |-> data.targetId, targetName |-> target.name]
        ghostWitches == SelectSeq(state.players, IsLivingGhostWitch)
    IN GhostVotes(Append(existingVotes, own), ghostWitches, data.targetId, target.name)

actBlackCat(state, playerId, data) ==
    IF HasId(state.players, playerId) /\ HasId(state.players, data.targetId)
    THEN confirm([state EXCEPT
                    !.witchVotes = castWitchVote(state, playerId, data),
                    !.players = [k \in 1..Len(state.players) |->
                                   [state.players[k] EXCEPT
                                      !.hasBlackCat = (state.players[k].id = data.targetId)]]],
                 playerId)
    ELSE state

actKillVote(state, playerId, data) ==
    IF HasId(state.players, playerId) /\ HasId(state.players, data.targetId)
    THEN confirm([state EXCEPT
                    !.witchVotes = castWitchVote(state, playerId, data),
                    !.nightKillTargetId = data.targetId],
                 playerId)
    ELSE state

actGuardVote(state, playerId, data) ==
    confirm([state EXCEPT !.constableGuardId = data.targetId], playerId)

actGuardSkip(state, playerId) ==
    confirm([state EXCEPT !.constableGuardId = SkipId], playerId)

actSelfReveal(state, playerId, data) ==
    LET k == IndexOfId(state.players, playerId)
        i == IF k = 0 THEN 0 ELSE IndexOfId(state.players[k].cards, data.cardId)
    IN IF i # 0
       THEN confirm([state EXCEPT
                       !.players[k].cards[i].isRevealed = TRUE,
                       !.players[k].immune = TRUE,
                       !.logs = Append(@, createLog("confessed to seek safety.",
                                                    state.players[k].name, NullId))],
                    playerId)
       ELSE confirm(state, playerId)

actConfessionPass(state, playerId) == confirm(state, playerId)

\* [...shuffle(hiddenCards), ...revealedCards]
shuffleHidden(cards, u) == shuffle(hiddenCards(cards), u) \o revealedCards(cards)

actShuffleHand(state, playerId, u) ==
    LET k == IndexOfId(state.players, playerId)
    IN IF k # 0
       THEN [state EXCEPT !.players[k].cards = shuffleHidden(@, u)]
       ELSE state

actShuffleGhost(state, data, u) ==
    LET hits == {k \in 1..Len(state.players) :
                    state.players[k].id = data.ghostId /\ state.players[k].isGhost}
    IN IF hits # {}
       THEN LET k == CHOOSE k \in hits : \A m \in hits : k <= m
            IN [state EXCEPT !.players[k].cards = shuffleHidden(@, u)]
       ELSE state

\* the map over players that NIGHT_DAMAGE_SELECT and applyNightDamage share
revealSelected(players, targetId, selectedCardIds) ==
    [k \in 1..Len(players) |->
       IF players[k].id # targetId THEN players[k]
       ELSE LET newCards == [i \in 1..Len(players[k].cards) |->
                               [players[k].cards[i] EXCEPT
                                  !.isRevealed =
                                      IF players[k].cards[i].id \in selectedCardIds
                                      THEN TRUE ELSE @]]
            IN [players[k] EXCEPT !.cards = newCards, !.isDead = AllRevealed(newCards)]]

\* the log entry of a night damage and, if the game is won, the win entry
damageLogs(state, newPlayers, targetId, selectedCardIds, win) ==
    LET name == IF HasId(state.players, targetId)
                THEN FindById(state.players, targetId).name ELSE NullId
        dead == HasId(newPlayers, targetId) /\ FindById(newPlayers, targetId).isDead
    IN <<IF dead
         THEN createLog("had all their cards revealed and has been eliminated!",
                        name, NullId)
         ELSE createLog("lost card(s) to the night attack.",
                        name, Cardinality(selectedCardIds))>>
       \o (IF win # NoWin THEN <<WinLog(win)>> ELSE <<>>)

\* the return to DAY without the increment of turnCounter
afterDamageKeepTurn(state, newPlayers, newLogs, win) ==
    [state EXCEPT
       !.players = newPlayers,
       !.logs = @ \o newLogs,
       !.phase = IF win # NoWin THEN GAME_OVER ELSE DAY,
       !.nightKillTargetId = NullId,
       !.constableGuardId = NullId,
       !.witchVotes = <<>>,
       !.nightDamageSelection = <<>>]

\* the state both damage paths return once the cards are revealed
afterDamage(state, newPlayers, newLogs, win) ==
    [state EXCEPT
       !.players = newPlayers,
       !.logs = @ \o newLogs,
       !.phase = IF win # NoWin THEN GAME_OVER ELSE DAY,
       !.turnCounter = IF win # NoWin THEN @ ELSE @ + 1,
       !.nightKillTargetId = NullId,
       !.constableGuardId = NullId,
       !.witchVotes = <<>>,
       !.nightDamageSelection = <<>>]

actNightDamageSelect(state, playerId, data) ==
    IF /\ state.nightDamageSelection # <<>>
       /\ state.nightDamageSelection[1].chooserId = playerId
    THEN LET targetId == state.nightDamageSelection[1].targetId
             newPlayers == revealSelected(state.players, targetId, data.cardIds)
             win == checkWinCondition(newPlayers, state.isSmallGameMode)
         IN afterDamage(state, newPlayers,
                        damageLogs(state, newPlayers, targetId, data.cardIds, win), win)
    ELSE state

actTriggerConspiracy(state) ==
    [state EXCEPT
       !.phase = CONSPIRACY,
       !.conspiracySelections = <<>>,
       !.logs = Append(@, createLog("Conspiracy begins!", NullId, NullId))]

\* the selections pushed for the living ghosts from alive[k] on: a random hidden
\* card of the left neighbour, none if the neighbour has no hidden card
RECURSIVE GhostSelections(_, _, _)
GhostSelections(alive, k, u) ==
    IF k > Len(alive) THEN <<>>
    ELSE LET ghost == alive[k]
             leftNeighbor == alive[LeftNeighborIndex(alive, ghost.id)]
             hidden == hiddenCards(leftNeighbor.cards)
         IN (IF ghost.isGhost /\ Len(hidden) > 0
             THEN <<[playerId |-> ghost.id,
                     selectedCardId |-> hidden[RandIndex(u, Len(hidden)) + 1].id]>>
             ELSE <<>>)
            \o GhostSelections(alive, k + 1, u)

\* cardTransfers: one per selection whose receiver is a living entity
RECURSIVE CardTransfers(_, _)
CardTransfers(players, selections) ==
    IF selections = <<>> THEN <<>>
    ELSE LET selection == Head(selections)
             alive == aliveEntities(players)
         IN (IF /\ HasId(players, selection.playerId)
                /\ ~FindById(players, selection.playerId).isDead
             THEN <<[fromPlayerId |-> alive[LeftNeighborIndex(alive, selection.playerId)].id,
                     toPlayerId |-> selection.playerId,
                     cardId |-> selection.selectedCardId]>>
             ELSE <<>>)
            \o CardTransfers(players, Tail(selections))

IsLivingReal(p) == ~p.isDead /\ ~p.isGhost

\* CONSPIRACY_SELECT (targetPlayerId = playerId) and CONSPIRACY_SELECT_FOR_OTHER
\* (targetPlayerId = data.forPlayerId)
actConspiracySelect(state, targetPlayerId, data, u) ==
    LET existingSelections ==
            SelectSeq(state.conspiracySelections, LAMBDA s : s.playerId # targetPlayerId)
        selections == Append(existingSelections,
                             [playerId |-> targetPlayerId, selectedCardId |-> data.cardId])
        aliveRealPlayers == SelectSeq(state.players, IsLivingReal)
        allSelected == \A k \in 1..Len(aliveRealPlayers) :
                          \E i \in 1..Len(selections) :
                             selections[i].playerId = aliveRealPlayers[k].id
    IN IF allSelected
       THEN LET allSelections ==
                    selections \o GhostSelections(aliveEntities(state.players), 1, u)
                cardTransfers == CardTransfers(state.players, allSelections)
            IN [state EXCEPT
                  !.players = applyTransfers(state.players, cardTransfers, u),
                  !.logs = Append(@, createLog("Conspiracy complete! Cards have been passed.",
                                               NullId, NullId)),
                  !.phase = DAY,
                  !.conspiracySelections = <<>>]
       ELSE [state EXCEPT !.conspiracySelections = selections]

ActionKinds ==
    {"ACCUSE_START", "ACCUSE_ACCEPT", "ACCUSE_CANCEL", "ACCUSE_REVEAL", "NIGHT_CONFIRM",
     "BLACK_CAT", "KILL_VOTE", "GUARD_VOTE", "GUARD_SKIP", "SELF_REVEAL",
     "CONFESSION_PASS", "SHUFFLE_HAND", "SHUFFLE_GHOST", "NIGHT_DAMAGE_SELECT",
     "TRIGGER_CONSPIRACY", "CONSPIRACY_SELECT", "CONSPIRACY_SELECT_FOR_OTHER"}

\* the if / else-if chain of processPlayerAction; an unknown action changes nothing
actionUpdates(state, playerId, action, data, u) ==
    CASE action = "ACCUSE_START" -> actAccuseStart(state, playerId, data)
      [] action = "ACCUSE_ACCEPT" -> actAccuseAccept(state, playerId)
      [] action = "ACCUSE_CANCEL" -> actAccuseCancel(state)
      [] action = "ACCUSE_REVEAL" -> actAccuseReveal(state, playerId, data)
      [] action = "NIGHT_CONFIRM" -> actNightConfirm(state, playerId, data)
      [] action = "BLACK_CAT" -> actBlackCat(state, playerId, data)
      [] action = "KILL_VOTE" -> actKillVote(state, playerId, data)
      [] action = "GUARD_VOTE" -> actGuardVote(state, playerId, data)
      [] action = "GUARD_SKIP" -> actGuardSkip(state, playerId)
      [] action = "SELF_REVEAL" -> actSelfReveal(state, playerId, data)
      [] action = "CONFESSION_PASS" -> actConfessionPass(state, playerId)
      [] action = "SHUFFLE_HAND" -> actShuffleHand(state, playerId, u)
      [] action = "SHUFFLE_GHOST" -> actShuffleGhost(state, data, u)
      [] action = "NIGHT_DAMAGE_SELECT" -> actNightDamageSelect(state, playerId, data)
      [] action = "TRIGGER_CONSPIRACY" -> actTriggerConspiracy(state)
      [] action = "CONSPIRACY_SELECT" -> actConspiracySelect(state, playerId, data, u)
      [] action = "CONSPIRACY_SELECT_FOR_OTHER" ->
             actConspiracySelect(state, data.forPlayerId, data, u)
      [] OTHER -> state

\* the closing win check: skipped when the incoming phase is GAME_OVER
finalWinCheck(state, updates) ==
    LET win == checkWinCondition(updates.players, updates.isSmallGameMode)
    IN IF win # NoWin /\ state.phase # GAME_OVER
       THEN [updates EXCEPT !.logs = Append(@, WinLog(win)), !.phase = GAME_OVER]
       ELSE updates

processPlayerAction(state, playerId, action, data, u) ==
    finalWinCheck(state, actionUpdates(state, playerId, action, data, u))

----------------------------------------------------------------------------
(* Phase state machine: src/unnamed/part_000 (logic/phaseTransitions) *)

\* the next living entity in array order instead of the previous one
getRightNeighborId(players, playerId) ==
    LET alive == aliveEntities(players)
        index == IndexOfId(alive, playerId)
    IN IF index = 0 THEN NullId
       ELSE alive[IF index = Len(alive) THEN 1 ELSE index + 1].id

\* NullId stands for null
getLeftNeighborId(players, playerId) ==
    LET alive == aliveEntities(players)
        index == IndexOfId(alive, playerId)
    IN IF index = 0 THEN NullId
       ELSE alive[IF index = 1 THEN Len(alive) ELSE index - 1].id

\* hasActiveConstable without the test of isRevealed
HoldsConstable(p) ==
    /\ ~p.isDead
    /\ \E i \in 1..Len(p.cards) : p.cards[i].type = CONSTABLE

IsLivingWitch(p) == p.hasRevealedWitch /\ ~p.isDead

HoldsActiveConstable(p) ==
    /\ ~p.isDead
    /\ \E i \in 1..Len(p.cards) : p.cards[i].type = CONSTABLE /\ ~p.cards[i].isRevealed

\* aliveWitches.length > 0 without the test that no witch is real
SomeoneIsWitch(players) ==
    \E k \in 1..Len(players) : IsLivingWitch(players[k])

\* aliveWitches.length > 0 && realWitches.length === 0
OnlyGhostsAreWitches(players) ==
    /\ \E k \in 1..Len(players) : IsLivingWitch(players[k])
    /\ \A k \in 1..Len(players) : IsLivingWitch(players[k]) => players[k].isGhost

\* advancePhase whose short-circuit of DAY keeps nightConfirmations
advancePhaseKeepConfirmations(state, u) ==
    CASE state.phase = SETUP ->
           LET validTargets == SelectSeq(state.players, IsReal)
           IN IF /\ state.isSmallGameMode
                 /\ OnlyGhostsAreWitches(state.players)
                 /\ Len(validTargets) > 0
              THEN LET randomTarget == validTargets[RandIndex(u, Len(validTargets)) + 1]
                   IN [state EXCEPT
                         !.phase = NIGHT_INITIAL_WITCH,
                         !.players = [k \in 1..Len(state.players) |->
                                        [state.players[k] EXCEPT
                                           !.hasBlackCat =
                                               (state.players[k].id = randomTarget.id)]],
                         !.nightConfirmations = <<>>]
              ELSE [state EXCEPT !.phase = NIGHT_INITIAL_WITCH, !.nightConfirmations = <<>>]
      [] state.phase = NIGHT_INITIAL_WITCH ->
           [state EXCEPT
              !.phase = DAY,
              !.turnCounter = @ + 1,
              !.witchVotes = <<>>,
              !.nightConfirmations = <<>>]
      [] state.phase = DAY ->
           LET validTargets == SelectSeq(aliveEntities(state.players), IsReal)
           IN IF /\ state.isSmallGameMode
                 /\ OnlyGhostsAreWitches(state.players)
                 /\ Len(validTargets) > 0
              THEN [state EXCEPT
                      !.phase = NIGHT_WITCH_VOTE,
                      !.nightKillTargetId =
                          validTargets[RandIndex(u, Len(validTargets)) + 1].id]
              ELSE [state EXCEPT !.phase = NIGHT_WITCH_VOTE, !.nightConfirmations = <<>>]
      [] state.phase = NIGHT_WITCH_VOTE ->
           IF \E k \in 1..Len(state.players) : HoldsActiveConstable(state.players[k])
           THEN [state EXCEPT !.phase = NIGHT_CONSTABLE, !.nightConfirmations = <<>>]
           ELSE [state EXCEPT
                   !.phase = NIGHT_CONFESSION,
                   !.logs = Append(@, createLog("No Constable to protect tonight.",
                                                NullId, NullId)),
                   !.nightConfirmations = <<>>]
      [] state.phase = NIGHT_CONSTABLE ->
           IF /\ state.constableGuardId = NullId
              /\ \E k \in 1..Len(state.players) :
                    state.players[k].isGhost /\ HoldsActiveConstable(state.players[k])
           THEN [state EXCEPT
                   !.phase = NIGHT_CONFESSION,
                   !.nightConfirmations = <<>>,
                   !.constableGuardId = SkipId]
           ELSE [state EXCEPT !.phase = NIGHT_CONFESSION, !.nightConfirmations = <<>>]
      [] state.phase = NIGHT_CONFESSION ->
           [state EXCEPT
              !.phase = NIGHT_RESOLUTION,
              !.logs = Append(@, createLog("Confession period has ended.", NullId, NullId))]
      [] OTHER -> state

\* mutant of advancePhase: NIGHT_INITIAL_WITCH -> DAY keeps the turn counter
advancePhaseKeepTurn(state, u) ==
    CASE state.phase = SETUP ->
           LET validTargets == SelectSeq(state.players, IsReal)
           IN IF /\ state.isSmallGameMode
                 /\ OnlyGhostsAreWitches(state.players)
                 /\ Len(validTargets) > 0
              THEN LET randomTarget == validTargets[RandIndex(u, Len(validTargets)) + 1]
                   IN [state EXCEPT
                         !.phase = NIGHT_INITIAL_WITCH,
                         !.players = [k \in 1..Len(state.players) |->
                                        [state.players[k] EXCEPT
                                           !.hasBlackCat =
                                               (state.players[k].id = randomTarget.id)]],
                         !.nightConfirmations = <<>>]
              ELSE [state EXCEPT !.phase = NIGHT_INITIAL_WITCH, !.nightConfirmations = <<>>]
      [] state.phase = NIGHT_INITIAL_WITCH ->
           [state EXCEPT
              !.phase = DAY,
              !.witchVotes = <<>>,
              !.nightConfirmations = <<>>]
      [] state.phase = DAY ->
           LET validTargets == SelectSeq(aliveEntities(state.players), IsReal)
           IN IF /\ state.isSmallGameMode
                 /\ OnlyGhostsAreWitches(state.players)
                 /\ Len(validTargets) > 0
              THEN [state EXCEPT
                      !.phase = NIGHT_WITCH_VOTE,
                      !.nightConfirmations = <<>>,
                      !.nightKillTargetId =
                          validTargets[RandIndex(u, Len(validTargets)) + 1].id]
              ELSE [state EXCEPT !.phase = NIGHT_WITCH_VOTE, !.nightConfirmations = <<>>]
      [] state.phase = NIGHT_WITCH_VOTE ->
           IF \E k \in 1..Len(state.players) : HoldsActiveConstable(state.players[k])
           THEN [state EXCEPT !.phase = NIGHT_CONSTABLE, !.nightConfirmations = <<>>]
           ELSE [state EXCEPT
                   !.phase = NIGHT_CONFESSION,
                   !.logs = Append(@, createLog("No Constable to protect tonight.",
                                                NullId, NullId)),
                   !.nightConfirmations = <<>>]
      [] state.phase = NIGHT_CONSTABLE ->
           IF /\ state.constableGuardId = NullId
              /\ \E k \in 1..Len(state.players) :
                    state.players[k].isGhost /\ HoldsActiveConstable(state.players[k])
           THEN [state EXCEPT
                   !.phase = NIGHT_CONFESSION,
                   !.nightConfirmations = <<>>,
                   !.constableGuardId = SkipId]
           ELSE [state EXCEPT !.phase = NIGHT_CONFESSION, !.nightConfirmations = <<>>]
      [] state.phase = NIGHT_CONFESSION ->
           [state EXCEPT
              !.phase = NIGHT_RESOLUTION,
              !.logs = Append(@, createLog("Confession period has ended.", NullId, NullId))]
      [] OTHER -> state

advancePhase(state, u) ==
    CASE state.phase = SETUP ->
           LET validTargets == SelectSeq(state.players, IsReal)
           IN IF /\ state.isSmallGameMode
                 /\ OnlyGhostsAreWitches(state.players)
                 /\ Len(validTargets) > 0
              THEN LET randomTarget == validTargets[RandIndex(u, Len(validTargets)) + 1]
                   IN [state EXCEPT
                         !.phase = NIGHT_INITIAL_WITCH,
                         !.players = [k \in 1..Len(state.players) |->
                                        [state.players[k] EXCEPT
                                           !.hasBlackCat =
                                               (state.players[k].id = randomTarget.id)]],
                         !.nightConfirmations = <<>>]
              ELSE [state EXCEPT !.phase = NIGHT_INITIAL_WITCH, !.nightConfirmations = <<>>]
      [] state.phase = NIGHT_INITIAL_WITCH ->
           [state EXCEPT
              !.phase = DAY,
              !.turnCounter = @ + 1,
              !.witchVotes = <<>>,
              !.nightConfirmations = <<>>]
      [] state.phase = DAY ->
           LET validTargets == SelectSeq(aliveEntities(state.players), IsReal)
           IN IF /\ state.isSmallGameMode
                 /\ OnlyGhostsAreWitches(state.players)
                 /\ Len(validTargets) > 0
              THEN [state EXCEPT
                      !.phase = NIGHT_WITCH_VOTE,
                      !.nightConfirmations = <<>>,
                      !.nightKillTargetId =
                          validTargets[RandIndex(u, Len(validTargets)) + 1].id]
              ELSE [state EXCEPT !.phase = NIGHT_WITCH_VOTE, !.nightConfirmations = <<>>]
      [] state.phase = NIGHT_WITCH_VOTE ->
           IF \E k \in 1..Len(state.players) : HoldsActiveConstable(state.players[k])
           THEN [state EXCEPT !.phase = NIGHT_CONSTABLE, !.nightConfirmations = <<>>]
           ELSE [state EXCEPT
                   !.phase = NIGHT_CONFESSION,
                   !.logs = Append(@, createLog("No Constable to protect tonight.",
                                                NullId, NullId)),
                   !.nightConfirmations = <<>>]
      [] state.phase = NIGHT_CONSTABLE ->
           IF /\ state.constableGuardId = NullId
              /\ \E k \in 1..Len(state.players) :
                    state.players[k].isGhost /\ HoldsActiveConstable(state.players[k])
           THEN [state EXCEPT
                   !.phase = NIGHT_CONFESSION,
                   !.nightConfirmations = <<>>,
                   !.constableGuardId = SkipId]
           ELSE [state EXCEPT !.phase = NIGHT_CONFESSION, !.nightConfirmations = <<>>]
      [] state.phase = NIGHT_CONFESSION ->
           [state EXCEPT
              !.phase = NIGHT_RESOLUTION,
              !.logs = Append(@, createLog("Confession period has ended.", NullId, NullId))]
      [] OTHER -> state

\* the chooser of a small-game night damage; NullId stands for ''
damageChooserId(state, killed) ==
    LET targetPlayer == FindById(state.players, killed)
        livingReal == SelectSeq(state.players, IsLivingReal)
    IN IF targetPlayer.isGhost
       THEN (IF Len(livingReal) > 0 THEN livingReal[1].id ELSE NullId)
       ELSE getLeftNeighborId(state.players, killed)

resolveNight(state, targetDies) ==
    LET killed == state.nightKillTargetId
        found == killed # NullId /\ HasId(state.players, killed)
    IN IF /\ state.isSmallGameMode /\ targetDies /\ found
          /\ damageChooserId(state, killed) # NullId
       THEN LET targetPlayer == FindById(state.players, killed)
                chooserId == damageChooserId(state, killed)
                chooser == FindById(state.players, chooserId)
            IN [state EXCEPT
                  !.players = [k \in 1..Len(state.players) |->
                                 [state.players[k] EXCEPT !.immune = FALSE]],
                  !.logs = Append(@, createLog("was attacked! must choose 2 cards to reveal.",
                                               targetPlayer.name, chooser.name)),
                  !.nightDamageSelection =
                      <<[targetId |-> killed, chooserId |-> chooserId,
                         pendingReveal |-> TRUE]>>]
       ELSE LET newPlayers ==
                    [k \in 1..Len(state.players) |->
                       IF state.players[k].id = killed /\ targetDies
                       THEN [state.players[k] EXCEPT
                               !.immune = FALSE, !.isDead = TRUE, !.cards = RevealAll(@)]
                       ELSE [state.players[k] EXCEPT !.immune = FALSE]]
                deathMessage ==
                    IF killed = NullId
                    THEN createLog("The witches did not select a target.", NullId, NullId)
                    ELSE IF ~targetDies
                    THEN createLog("was targeted but survived the night!",
                                   IF found THEN FindById(state.players, killed).name
                                   ELSE NullId, NullId)
                    ELSE IF found
                    THEN createLog("NIGHT_KILL_MESSAGES",
                                   FindById(state.players, killed).name, NullId)
                    ELSE createLog("The night was peaceful.", NullId, NullId)
                win == checkWinCondition(newPlayers, state.isSmallGameMode)
            IN afterDamage(state, newPlayers,
                           <<deathMessage>> \o (IF win # NoWin THEN <<WinLog(win)>> ELSE <<>>),
                           win)

applyNightDamage(state, selectedCardIds) ==
    IF state.nightDamageSelection = <<>> THEN state
    ELSE LET targetId == state.nightDamageSelection[1].targetId
             newPlayers == revealSelected(state.players, targetId, selectedCardIds)
             win == checkWinCondition(newPlayers, state.isSmallGameMode)
         IN afterDamage(state, newPlayers,
                        damageLogs(state, newPlayers, targetId, selectedCardIds, win), win)

----------------------------------------------------------------------------
(* EngineSpec: the action processor and the phase machine applied to dealt  *)
(* games of 2, 3 and 4 real participants.  Every operation is offered in    *)
(* every phase, as the code has no phase guard; an operation whose result   *)
(* equals its input state is a stuttering step.                            *)

\* the senders of ACTION messages: the first two real participants and a
\* connection that is no participant
Actors(players) ==
    LET real == SelectSeq(players, IsReal)
    IN {real[k].id : k \in 1..(IF Len(real) < 2 THEN Len(real) ELSE 2)} \cup {StrangerId}

\* the sender of the actions that do not read their sender
FirstSeat(players) == IF players = <<>> THEN {StrangerId} ELSE {players[1].id}

\* the entities named as targets: the first, the second and the last seat
Targets(players) ==
    IF players = <<>> THEN {}
    ELSE {players[1].id, players[IF Len(players) < 2 THEN 1 ELSE 2].id,
          players[Len(players)].id}

\* the card ids named for a hand: its first hidden card of each type, its first
\* revealed card and an id that is no card
CardChoices(cards) ==
    {cards[FirstHidden(cards, t)].id : t \in {t \in CardType : FirstHidden(cards, t) # 0}}
      \cup {cards[i].id : i \in {i \in 1..Len(cards) :
                                    /\ cards[i].isRevealed
                                    /\ \A m \in 1..(i - 1) : ~cards[m].isRevealed}}
      \cup {NullId}

HandOfId(players, id) == IF HasId(players, id) THEN FindById(players, id).cards ELSE <<>>

\* the selections named for a night damage: nothing, each card of CardChoices
\* alone, the first two hidden cards, every card of the hand
DamageChoices(cards) ==
    LET hidden == hiddenCards(cards)
    IN {{c} : c \in CardChoices(cards) \ {NullId}}
         \cup {{}, {hidden[i].id : i \in 1..(IF Len(hidden) < 2 THEN Len(hidden) ELSE 2)},
               {cards[i].id : i \in 1..Len(cards)}}

PendingTargetHand(state) ==
    IF state.pendingAccusation = <<>> THEN <<>>
    ELSE HandOfId(state.players, state.pendingAccusation[1].targetId)

DamageTargetHand(state) ==
    IF state.nightDamageSelection = <<>> THEN <<>>
    ELSE HandOfId(state.players, state.nightDamageSelection[1].targetId)

\* the hand a conspiracy selection by id is taken from
LeftNeighborHand(players, id) ==
    LET left == getLeftNeighborId(players, id)
    IN IF left = NullId THEN <<>> ELSE HandOfId(players, left)

EngineInit ==
    /\ \E n \in MIN_PLAYERS..MinTable, u \in Rand :
         LET lobby == [INITIAL_GAME_STATE EXCEPT !.players = LobbyRoster(n)]
         IN /\ gameState = startGame(lobby, u)
            /\ deck = generateDeck(Len(withGhosts(lobby.players)), u)
    /\ isHost = TRUE
    /\ wire = {}
    /\ shuffleIdx = 0
    /\ ops = 0
    /\ net = 0
    /\ hist = <<>>

\* setGameState(prev => next) within the budget of operations
EngineStep(next) ==
    /\ ops < MaxOps
    /\ gameState' = next
    /\ ops' = IF next = gameState THEN ops ELSE ops + 1
    /\ UNCHANGED <<isHost, wire, deck, shuffleIdx, net, hist>>

\* setGameState(prev => next) for the step that completes an exchange already
\* begun (a pending accusation, a pending night damage): it is counted with
\* the operation that began it
Continue(next) ==
    /\ gameState' = next
    /\ UNCHANGED <<isHost, wire, deck, shuffleIdx, ops, net, hist>>

Act(playerId, action, data, u) ==
    EngineStep(processPlayerAction(gameState, playerId, action, data, u))

\* the draws offered to an operation that shuffles hands
ShuffleDraws == {0, RandDen - 1}

AccuseStart ==
    \E a \in Actors(gameState.players), t \in Targets(gameState.players) :
       Act(a, "ACCUSE_START", [NoData EXCEPT !.targetId = t], 0)

\* the first acceptance of a pending accusation continues it
AccuseAccept ==
    \E a \in Actors(gameState.players) :
       IF gameState.pendingAccusation # <<>> /\ ~gameState.pendingAccusation[1].accepted
       THEN Continue(processPlayerAction(gameState, a, "ACCUSE_ACCEPT", NoData, 0))
       ELSE Act(a, "ACCUSE_ACCEPT", NoData, 0)

AccuseCancel ==
    \E a \in FirstSeat(gameState.players) : Act(a, "ACCUSE_CANCEL", NoData, 0)

AccuseReveal ==
    \E a \in Actors(gameState.players), c \in CardChoices(PendingTargetHand(gameState)) :
       Continue(processPlayerAction(gameState, a, "ACCUSE_REVEAL",
                                    [NoData EXCEPT !.cardId = c], 0))

NightConfirm ==
    \E a \in Actors(gameState.players), t \in {NullId, gameState.players[1].id} :
       Act(a, "NIGHT_CONFIRM", [NoData EXCEPT !.fakeTargetId = t], 0)

BlackCat ==
    \E a \in Actors(gameState.players), t \in Targets(gameState.players) :
       Act(a, "BLACK_CAT", [NoData EXCEPT !.targetId = t], 0)

KillVote ==
    \E a \in Actors(gameState.players), t \in Targets(gameState.players) :
       Act(a, "KILL_VOTE", [NoData EXCEPT !.targetId = t], 0)

GuardVote ==
    \E a \in Actors(gameState.players), t \in Targets(gameState.players) :
       Act(a, "GUARD_VOTE", [NoData EXCEPT !.targetId = t], 0)

GuardSkip ==
    \E a \in Actors(gameState.players) : Act(a, "GUARD_SKIP", NoData, 0)

SelfReveal ==
    \E a \in Actors(gameState.players) :
       \E c \in CardChoices(HandOfId(gameState.players, a)) :
          Act(a, "SELF_REVEAL", [NoData EXCEPT !.cardId = c], 0)

ConfessionPass ==
    \E a \in Actors(gameState.players) : Act(a, "CONFESSION_PASS", NoData, 0)

ShuffleHand ==
    \E a \in Actors(gameState.players), u \in ShuffleDraws :
       Act(a, "SHUFFLE_HAND", NoData, u)

ShuffleGhost ==
    \E a \in FirstSeat(gameState.players), g \in Targets(gameState.players), u \in ShuffleDraws :
       Act(a, "SHUFFLE_GHOST", [NoData EXCEPT !.ghostId = g], u)

NightDamageSelect ==
    \E a \in Actors(gameState.players), S \in DamageChoices(DamageTargetHand(gameState)) :
       Continue(processPlayerAction(gameState, a, "NIGHT_DAMAGE_SELECT",
                                    [NoData EXCEPT !.cardIds = S], 0))

TriggerConspiracy ==
    \E a \in FirstSeat(gameState.players) : Act(a, "TRIGGER_CONSPIRACY", NoData, 0)

ConspiracySelect ==
    \E a \in Actors(gameState.players), u \in ShuffleDraws :
       \E c \in CardChoices(LeftNeighborHand(gameState.players, a)) :
          Act(a, "CONSPIRACY_SELECT", [NoData EXCEPT !.cardId = c], u)

ConspiracySelectForOther ==
    \E a \in FirstSeat(gameState.players), f \in Targets(gameState.players), u \in ShuffleDraws :
       \E c \in CardChoices(LeftNeighborHand(gameState.players, f)) :
          Act(a, "CONSPIRACY_SELECT_FOR_OTHER",
              [NoData EXCEPT !.forPlayerId = f, !.cardId = c], u)

AdvancePhase ==
    /\ isHost
    /\ \E u \in Rand : EngineStep(advancePhase(gameState, u))

ResolveNight ==
    /\ isHost
    /\ \E targetDies \in BOOLEAN : EngineStep(resolveNight(gameState, targetDies))

ApplyNightDamage ==
    /\ isHost
    /\ \E S \in DamageChoices(DamageTargetHand(gameState)) :
          Continue(applyNightDamage(gameState, S))

EngineNext ==
    \/ AccuseStart \/ AccuseAccept \/ AccuseCancel \/ AccuseReveal
    \/ NightConfirm \/ BlackCat \/ KillVote \/ GuardVote \/ GuardSkip
    \/ SelfReveal \/ ConfessionPass \/ ShuffleHand \/ ShuffleGhost
    \/ NightDamageSelect \/ TriggerConspiracy
    \/ ConspiracySelect \/ ConspiracySelectForOther
    \/ AdvancePhase \/ ResolveNight \/ ApplyNightDamage

EngineSpec == EngineInit /\ [][EngineNext]_vars

----------------------------------------------------------------------------
(* The host: src/App.tsx handleHostMessage, the disconnect handler, the     *)
(* broadcast effect and the host's buttons.                                *)

Input(playerId, action, data, u) ==
    [playerId |-> playerId, action |-> action, data |-> data, u |-> u]

\* the ACTION messages offered to the host in a state: those of EngineSpec
ActionInputs(state) ==
    LET A == Actors(state.players)
        T == Targets(state.players)
    IN {Input(a, kind, NoData, 0) :
           a \in A, kind \in {"ACCUSE_ACCEPT", "ACCUSE_CANCEL", "GUARD_SKIP",
                              "CONFESSION_PASS", "TRIGGER_CONSPIRACY"}}
       \cup {Input(a, kind, [NoData EXCEPT !.targetId = t], 0) :
           a \in A, t \in T, kind \in {"ACCUSE_START", "BLACK_CAT", "KILL_VOTE", "GUARD_VOTE"}}
       \cup {Input(a, "ACCUSE_REVEAL", [NoData EXCEPT !.cardId = c], 0) :
           a \in A, c \in CardChoices(PendingTargetHand(state))}
       \cup {Input(a, "NIGHT_CONFIRM", [NoData EXCEPT !.fakeTargetId = t], 0) :
           a \in A, t \in {NullId} \cup FirstSeat(state.players)}
       \cup UNION {{Input(a, "SELF_REVEAL", [NoData EXCEPT !.cardId = c], 0) :
                       c \in CardChoices(HandOfId(state.players, a))} : a \in A}
       \cup {Input(a, "SHUFFLE_HAND", NoData, u) : a \in A, u \in ShuffleDraws}
       \cup {Input(a, "SHUFFLE_GHOST", [NoData EXCEPT !.ghostId = g], u) :
           a \in FirstSeat(state.players), g \in T, u \in ShuffleDraws}
       \cup {Input(a, "NIGHT_DAMAGE_SELECT", [NoData EXCEPT !.cardIds = S], 0) :
           a \in A, S \in DamageChoices(DamageTargetHand(state))}
       \cup UNION {{Input(a, "CONSPIRACY_SELECT", [NoData EXCEPT !.cardId = c], u) :
                       c \in CardChoices(LeftNeighborHand(state.players, a)),
                       u \in ShuffleDraws} : a \in A}
       \cup UNION {{Input(a, "CONSPIRACY_SELECT_FOR_OTHER",
                          [NoData EXCEPT !.forPlayerId = f, !.cardId = c], u) :
                       a \in FirstSeat(state.players),
                       c \in CardChoices(LeftNeighborHand(state.players, f)),
                       u \in ShuffleDraws} : f \in T}

\* a message handed to peerService.send (to a connection id) or to
\* peerService.broadcast (to Broadcast); the payload fields a type does not
\* carry are NullId / <<>>
Message(type, to, playerId, state, cards) ==
    [type |-> type, to |-> to, playerId |-> playerId, gameState |-> state, cards |-> cards]

NoState == <<>>

\* mutant of maskCards: every card is sent without its role
maskCardsAll(cards) == [i \in 1..Len(cards) |-> [cards[i] EXCEPT !.type = MASKED]]

\* cards: p.cards.map(c => ({ ...c, type: c.isRevealed ? c.type : null }))
maskCards(cards) ==
    [i \in 1..Len(cards) |->
       [cards[i] EXCEPT !.type = IF cards[i].isRevealed THEN @ ELSE MASKED]]

publicState(state) ==
    [state EXCEPT
       !.players = [k \in 1..Len(state.players) |->
                      [state.players[k] EXCEPT !.cards = maskCards(@)]]]

\* the broadcast effect, run by the host after every change of gameState
broadcast(state, host) ==
    IF host /\ Len(state.players) > 0
    THEN {Message("UPDATE_STATE", Broadcast, NullId, publicState(state), <<>>)}
         \cup {Message("UPDATE_HAND", state.players[k].id, state.players[k].id,
                       NoState, state.players[k].cards) :
                 k \in {k \in 1..Len(state.players) : state.players[k].id # HostId}}
    ELSE {}

reconnectedLog(name) == createLog("reconnected.", name, NullId)

joinedLog(name) == createLog("joined.", name, NullId)

HasName(players, name) == \E k \in 1..Len(players) : players[k].name = name

FindByName(players, name) ==
    players[CHOOSE k \in 1..Len(players) :
               players[k].name = name /\ \A m \in 1..(k - 1) : players[m].name # name]

\* the slot of entity id taken over by connection connId
reconnect(state, id, connId) ==
    [state EXCEPT
       !.players = [k \in 1..Len(state.players) |->
                      IF state.players[k].id = id
                      THEN [state.players[k] EXCEPT
                              !.peerId = connId, !.isDisconnected = FALSE]
                      ELSE state.players[k]],
       !.logs = Append(@, reconnectedLog(FindById(state.players, id).name))]

\* case 'JOIN': the new state and the messages sent from the timeout
joinState(prev, connId, name) ==
    IF HasId(prev.players, connId) THEN prev
    ELSE IF prev.phase # LOBBY
    THEN (IF HasName(prev.players, name)
          THEN reconnect(prev, FindByName(prev.players, name).id, connId)
          ELSE prev)
    ELSE IF HasName(prev.players, name) THEN prev
    ELSE [prev EXCEPT
            !.players = Append(@, newPlayer(connId, name, connId, FALSE)),
            !.logs = Append(@, joinedLog(name))]

joinMessages(prev, connId, name) ==
    IF HasId(prev.players, connId) THEN {}
    ELSE IF prev.phase # LOBBY
    THEN (IF HasName(prev.players, name)
          THEN LET existingPlayer == FindByName(prev.players, name)
               IN {Message("WELCOME", connId, existingPlayer.id,
                           joinState(prev, connId, name), <<>>),
                   Message("UPDATE_HAND", connId, existingPlayer.id,
                           NoState, existingPlayer.cards)}
          ELSE {Message("ERROR", connId, NullId, NoState, <<>>)})
    ELSE IF HasName(prev.players, name)
    THEN {Message("ERROR", connId, NullId, NoState, <<>>)}
    ELSE {Message("WELCOME", connId, connId, joinState(prev, connId, name), <<>>)}

\* case 'REJOIN'
rejoinState(prev, connId, name, playerId) ==
    IF HasId(prev.players, playerId)
    THEN reconnect(prev, playerId, connId)
    ELSE [prev EXCEPT
            !.players = Append(@, newPlayer(playerId, name, connId, FALSE)),
            !.logs = Append(@, joinedLog(name))]

rejoinMessages(prev, connId, name, playerId) ==
    {Message("WELCOME", connId, playerId, rejoinState(prev, connId, name, playerId), <<>>)}
    \cup (IF HasId(prev.players, playerId)
          THEN {Message("UPDATE_HAND", connId, playerId, NoState,
                        FindById(prev.players, playerId).cards)}
          ELSE {})

\* LEAVE that removes the participant in every phase
leaveStateRemove(prev, playerId) ==
    [prev EXCEPT
       !.players = SelectSeq(@, LAMBDA p : p.id # playerId),
       !.logs = Append(@, createLog("A player left the game.", NullId, NullId))]

\* case 'LEAVE'
leaveState(prev, playerId) ==
    IF prev.phase = LOBBY
    THEN [prev EXCEPT
            !.players = SelectSeq(@, LAMBDA p : p.id # playerId),
            !.logs = Append(@, createLog("A player left the game.", NullId, NullId))]
    ELSE [prev EXCEPT
            !.players = [k \in 1..Len(prev.players) |->
                           IF prev.players[k].id = playerId
                           THEN [prev.players[k] EXCEPT !.isDisconnected = TRUE]
                           ELSE prev.players[k]],
            !.logs = Append(@, createLog("A player left the game.", NullId, NullId))]

\* peerService.onDisconnect
disconnectState(prev, connId) ==
    IF \E k \in 1..Len(prev.players) : prev.players[k].peerId = connId
    THEN LET player == prev.players[CHOOSE k \in 1..Len(prev.players) :
                          /\ prev.players[k].peerId = connId
                          /\ \A m \in 1..(k - 1) : prev.players[m].peerId # connId]
         IN [prev EXCEPT
               !.players = [k \in 1..Len(prev.players) |->
                              IF prev.players[k].peerId = connId
                              THEN [prev.players[k] EXCEPT !.isDisconnected = TRUE]
                              ELSE prev.players[k]],
               !.logs = Append(@, createLog("disconnected.", player.name, NullId))]
    ELSE prev

\* movePlayer(index, direction) with the 0-based index of the code
movePlayer(state, index, newIndex) ==
    IF newIndex < 0 \/ newIndex >= Len(state.players) THEN state
    ELSE [state EXCEPT !.players = SwapAt(@, index + 1, newIndex + 1)]

----------------------------------------------------------------------------
(* Spec: the host from the entry screen on. wire holds the messages the     *)
(* host handed to peerService in the last step; net counts the messages     *)
(* received and the seating moves.                                         *)

Init ==
    /\ gameState = INITIAL_GAME_STATE
    /\ isHost = FALSE
    /\ wire = {}
    /\ deck = <<>>
    /\ shuffleIdx = 0
    /\ ops = 0
    /\ net = 0
    /\ hist = <<>>

\* setGameState(prev => next) followed by the broadcast effect, which runs when
\* the reducer returned a state other than prev; direct are the messages the
\* handler itself sends. isHost is true after every step that changes gameState
HostStep(next, direct) ==
    /\ gameState' = next
    /\ wire' = direct \cup (IF next # gameState THEN broadcast(next, TRUE) ELSE {})

\* the id of a connection that was never seen before
FreshConn(players) ==
    CHOOSE c \in 2..(2 + 2 * Len(players)) :
       /\ \A k \in 1..Len(players) : players[k].id # c /\ players[k].peerId # c
       /\ \A d \in 2..(c - 1) :
             \E k \in 1..Len(players) : players[k].id = d \/ players[k].peerId = d

\* the real participants other than the host
Guests(players) == {players[k].id : k \in {k \in 1..Len(players) :
                                              IsReal(players[k]) /\ players[k].id # HostId}}

\* the connections a message arrives on: a new one, or that of a seated guest
ConnIds(players) == {FreshConn(players)} \cup Guests(players)

\* the button 'Create Room (Host)'
CreateRoom ==
    /\ ~isHost
    /\ isHost' = TRUE
    /\ HostStep([gameState EXCEPT !.players = <<newPlayer(HostId, HostId, HostId, TRUE)>>], {})
    /\ UNCHANGED <<deck, shuffleIdx, ops, net, hist>>

\* a JOIN that seats a new participant is bounded by MaxPlayers, any other
\* message or seating move by MaxNet
Counted(next) ==
    /\ Len(next.players) <= MaxPlayers
    /\ IF Len(next.players) > Len(gameState.players)
       THEN net' = net
       ELSE net < MaxNet /\ net' = net + 1

Join ==
    /\ isHost
    /\ \E connId \in ConnIds(gameState.players) :
         \E name \in {connId, HostId, 2} :
            /\ Counted(joinState(gameState, connId, name))
            /\ HostStep(joinState(gameState, connId, name),
                        joinMessages(gameState, connId, name))
    /\ UNCHANGED <<isHost, deck, shuffleIdx, ops, hist>>

Rejoin ==
    /\ isHost
    /\ \E connId \in {FreshConn(gameState.players)} :
         \E playerId \in Guests(gameState.players) \cup {StrangerId} :
            /\ Len(rejoinState(gameState, connId, playerId, playerId).players) <= MaxPlayers
            /\ HostStep(rejoinState(gameState, connId, playerId, playerId),
                        rejoinMessages(gameState, connId, playerId, playerId))
    /\ net < MaxNet
    /\ net' = net + 1
    /\ UNCHANGED <<isHost, deck, shuffleIdx, ops, hist>>

Leave ==
    /\ isHost
    /\ net < MaxNet
    /\ \E playerId \in Guests(gameState.players) :
         HostStep(leaveState(gameState, playerId), {})
    /\ net' = net + 1
    /\ UNCHANGED <<isHost, deck, shuffleIdx, ops, hist>>

Disconnect ==
    /\ isHost
    /\ net < MaxNet
    /\ \E k \in 1..Len(gameState.players) :
         /\ IsReal(gameState.players[k])
         /\ gameState.players[k].id # HostId
         /\ ~gameState.players[k].isDisconnected
         /\ HostStep(disconnectState(gameState, gameState.players[k].peerId), {})
    /\ net' = net + 1
    /\ UNCHANGED <<isHost, deck, shuffleIdx, ops, hist>>

\* the seating arrows of the lobby, shown to the host with more than 2 seated
MovePlayer ==
    /\ isHost
    /\ net < MaxNet
    /\ gameState.phase = LOBBY
    /\ Len(gameState.players) > 2
    /\ \E index \in 0..(Len(gameState.players) - 1) :
         \E newIndex \in {index - 1, index + 1} :
            /\ newIndex >= 0 /\ newIndex < Len(gameState.players)
            /\ HostStep(movePlayer(gameState, index, newIndex), {})
    /\ net' = net + 1
    /\ UNCHANGED <<isHost, deck, shuffleIdx, ops, hist>>

\* the button 'Start Game' of the lobby, enabled from MIN_PLAYERS on
StartGame ==
    /\ isHost
    /\ gameState.phase = LOBBY
    /\ Len(gameState.players) >= MIN_PLAYERS
    /\ \E u \in Rand :
         /\ HostStep(startGame(gameState, u), {})
         /\ deck' = generateDeck(Len(withGhosts(gameState.players)), u)
    /\ UNCHANGED <<isHost, shuffleIdx, ops, net, hist>>

LobbyNext ==
    \/ CreateRoom \/ Join \/ Rejoin \/ Leave \/ Disconnect \/ MovePlayer \/ StartGame

LobbySpec == Init /\ [][LobbyNext]_vars

\* case 'ACTION' of handleHostMessage and the host's own handlePlayerAction
PlayerAction ==
    /\ isHost
    /\ net < MaxNet
    /\ \E in \in ActionInputs(gameState) :
         HostStep(processPlayerAction(gameState, in.playerId, in.action, in.data, in.u), {})
    /\ net' = net + 1
    /\ UNCHANGED <<isHost, deck, shuffleIdx, ops, hist>>

\* the buttons 'Start Night', 'Next Phase' and 'End Confession Period'; the
\* overlay of a pending night damage selection covers the host's buttons
HostAdvancePhase ==
    /\ isHost
    /\ gameState.phase \notin {LOBBY, GAME_OVER, NIGHT_RESOLUTION}
    /\ gameState.nightDamageSelection = <<>>
    /\ \E u \in Rand : HostStep(advancePhase(gameState, u), {})
    /\ UNCHANGED <<isHost, deck, shuffleIdx, ops, net, hist>>

\* the resolution buttons of the NIGHT_RESOLUTION view
HostResolveNight ==
    /\ isHost
    /\ gameState.phase = NIGHT_RESOLUTION
    /\ gameState.nightDamageSelection = <<>>
    /\ gameState.turnCounter < MaxTurn
    /\ \E targetDies \in BOOLEAN : HostStep(resolveNight(gameState, targetDies), {})
    /\ UNCHANGED <<isHost, deck, shuffleIdx, ops, net, hist>>

Next ==
    \/ CreateRoom \/ Join \/ Rejoin \/ Leave \/ Disconnect \/ MovePlayer \/ StartGame
    \/ PlayerAction \/ HostAdvancePhase \/ HostResolveNight

Spec == Init /\ [][Next]_vars

----------------------------------------------------------------------------
(* WinSpec: checkWinCondition applied to the rosters of dealt games, which  *)
(* are then changed by revealing a card, killing an entity (all its cards  *)
(* revealed) or passing one hidden card to the right neighbour.            *)

WinInit ==
    /\ \E n \in MIN_PLAYERS..MinTable, u \in Rand :
         gameState = startGame([INITIAL_GAME_STATE EXCEPT !.players = LobbyRoster(n)], u)
    /\ isHost = TRUE
    /\ wire = {}
    /\ deck = <<>>
    /\ shuffleIdx = 0
    /\ ops = 0
    /\ net = 0
    /\ hist = <<>>

\* card.isRevealed = true (SELF_REVEAL, ACCUSE_REVEAL)
WinReveal ==
    /\ ops < MaxWinOps
    /\ \E k \in 1..Len(gameState.players), t \in CardType :
         LET i == FirstHidden(gameState.players[k].cards, t)
         IN /\ i # 0
            /\ gameState' = [gameState EXCEPT !.players[k].cards[i].isRevealed = TRUE]
    /\ ops' = ops + 1
    /\ UNCHANGED <<isHost, wire, deck, shuffleIdx, net, hist>>

\* player.isDead = true with every card revealed (resolveNight, ACCUSE_REVEAL)
WinKill ==
    /\ ops < MaxWinOps
    /\ \E k \in 1..Len(gameState.players) :
         /\ ~gameState.players[k].isDead
         /\ gameState' = [gameState EXCEPT
                            !.players[k].isDead = TRUE,
                            !.players[k].cards = RevealAll(@)]
    /\ ops' = ops + 1
    /\ UNCHANGED <<isHost, wire, deck, shuffleIdx, net, hist>>

\* a conspiracy in which one selection names the hidden WITCH card of the left
\* neighbour (the only transfer that changes what checkWinCondition reads), every
\* draw of the closing shuffles returning 0
WinTransfer ==
    /\ ops < MaxWinOps
    /\ \E k \in 1..Len(gameState.players), t \in {WITCH}, u \in {0} :
         LET alive == aliveEntities(gameState.players)
             to == gameState.players[k]
             from == alive[LeftNeighborIndex(alive, to.id)]
             i == FirstHidden(from.cards, t)
         IN /\ ~to.isDead
            /\ from.id # to.id
            /\ i # 0
            /\ gameState' = [gameState EXCEPT
                  !.players = applyTransfers(gameState.players,
                      <<[fromPlayerId |-> from.id, toPlayerId |-> to.id,
                         cardId |-> from.cards[i].id]>>, u)]
    /\ ops' = ops + 1
    /\ UNCHANGED <<isHost, wire, deck, shuffleIdx, net, hist>>

WinNext == WinReveal \/ WinKill \/ WinTransfer

WinSpec == WinInit /\ [][WinNext]_vars

----------------------------------------------------------------------------
(* Properties of the win-condition evaluator (WinSpec) *)

Win == checkWinCondition(gameState.players, gameState.isSmallGameMode)

Roster == gameState.players

Seats == 1..Len(gameState.players)

HoldsHiddenWitch(p) ==
    \E i \in 1..Len(p.cards) : p.cards[i].type = WITCH /\ ~p.cards[i].isRevealed

HoldsShownWitch(p) ==
    \E i \in 1..Len(p.cards) : p.cards[i].type = WITCH /\ p.cards[i].isRevealed

\* roster q is roster p with further cards revealed and/or further entities marked
\* dead with all their cards revealed, and nothing else changed
RevealedOrKilled(p, q) ==
    /\ Len(q) = Len(p)
    /\ \A k \in 1..Len(p) :
         /\ [q[k] EXCEPT !.cards = <<>>, !.isDead = FALSE]
              = [p[k] EXCEPT !.cards = <<>>, !.isDead = FALSE]
         /\ p[k].isDead => q[k].isDead
         /\ (q[k].isDead /\ ~p[k].isDead) => AllRevealed(q[k].cards)
         /\ Len(q[k].cards) = Len(p[k].cards)
         /\ \A i \in 1..Len(p[k].cards) :
              /\ q[k].cards[i].id = p[k].cards[i].id
              /\ q[k].cards[i].type = p[k].cards[i].type
              /\ p[k].cards[i].isRevealed => q[k].cards[i].isRevealed

\* C4: win-condition monotonicity: once checkWinCondition returns a side for a
\* roster, it returns a side for every roster obtained by revealing a further
\* card or marking a further entity dead with all its cards revealed, in
\* standard and in small-game mode.
C4_WinMonotone ==
    [][(RevealedOrKilled(gameState.players, gameState'.players) /\ Win # NoWin)
          => Win' # NoWin]_vars

\* a roster Town had won by a reveal (the WITCH holder lives on) in which two
\* further entities have since been killed
C4_Witness ==
    /\ Win = TOWN_WIN
    /\ \E k \in Seats : ~Roster[k].isDead /\ HoldsShownWitch(Roster[k])
    /\ \E k, m \in Seats : k # m /\ Roster[k].isDead /\ Roster[m].isDead

\* C5: checkWinCondition returns TOWN_WIN exactly when, in standard mode, no
\* living entity holds an unrevealed WITCH card and, in small-game mode, the
\* WITCH card of the game has been revealed, whoever is alive.
C5_TownWinExact ==
    (Win = TOWN_WIN) <=>
        IF gameState.isSmallGameMode
        THEN \E k \in Seats : HoldsShownWitch(Roster[k])
        ELSE ~\E k \in Seats : ~Roster[k].isDead /\ HoldsHiddenWitch(Roster[k])

\* small-game Town win with the WITCH holder dead and a second entity eliminated
C5_Witness ==
    /\ gameState.isSmallGameMode
    /\ Win = TOWN_WIN
    /\ \E k, m \in Seats : k # m /\ Roster[k].isDead /\ Roster[m].isDead

AllLivingWitchAligned ==
    \A k \in Seats : ~Roster[k].isDead => Roster[k].hasRevealedWitch

\* C6 as stated: in standard mode checkWinCondition returns WITCH_WIN if and
\* only if no living entity lacks hasEverHeldWitchCard.
C6_WitchWinIffNoTownAlive ==
    ~gameState.isSmallGameMode => ((Win = WITCH_WIN) <=> AllLivingWitchAligned)

\* C6 amended: in standard mode checkWinCondition returns WITCH_WIN if and only
\* if some living entity holds an unrevealed WITCH card and no living entity
\* lacks hasEverHeldWitchCard (the Town check comes first).
C6_WitchWinStandard ==
    ~gameState.isSmallGameMode =>
        ((Win = WITCH_WIN) <=>
            /\ \E k \in Seats : ~Roster[k].isDead /\ HoldsHiddenWitch(Roster[k])
            /\ AllLivingWitchAligned)

\* a standard game the witch team has won by outliving the town
C6_Witness ==
    /\ ~gameState.isSmallGameMode
    /\ Win = WITCH_WIN
    /\ \E k \in Seats : Roster[k].isDead

SomeHandFullyRevealed ==
    \E k \in Seats : Len(Roster[k].cards) > 0 /\ AllRevealed(Roster[k].cards)

\* C7 as stated: in small-game mode checkWinCondition returns WITCH_WIN if and
\* only if some entity has had its entire hand revealed or every non-ghost
\* living entity is witch-aligned.
C7_WitchWinIffEliminatedOrAligned ==
    gameState.isSmallGameMode =>
        ((Win = WITCH_WIN) <=>
            \/ SomeHandFullyRevealed
            \/ \A k \in Seats :
                 (~Roster[k].isGhost /\ ~Roster[k].isDead) => Roster[k].hasRevealedWitch)

\* C7 amended: in small-game mode checkWinCondition returns WITCH_WIN if and
\* only if the WITCH card has not been revealed and either some entity with a
\* non-empty hand has had its entire hand revealed, or there is a non-ghost
\* entity and every non-ghost entity (living or dead) is witch-aligned.
C7_WitchWinSmall ==
    gameState.isSmallGameMode =>
        ((Win = WITCH_WIN) <=>
            /\ ~\E k \in Seats : HoldsShownWitch(Roster[k])
            /\ \/ SomeHandFullyRevealed
               \/ /\ \E k \in Seats : ~Roster[k].isGhost
                  /\ \A k \in Seats : ~Roster[k].isGhost => Roster[k].hasRevealedWitch)

\* a small game the witch team has won because every real participant has held
\* the WITCH card, nobody being eliminated
C7_Witness ==
    /\ gameState.isSmallGameMode
    /\ Win = WITCH_WIN
    /\ ~SomeHandFullyRevealed

----------------------------------------------------------------------------
(* Properties of the dealer (DealSpec) *)

\* C8: for every participant count from 4 to 12 the built deck has exactly
\* participantCount x handSize cards (hand size 5 up to 7 participants, 4 for
\* 8-9, 3 for 10 or more) with 1 WITCH for 4-5 and 2 WITCH for 6-12
\* participants and always 1 CONSTABLE, and no shuffle step changes anything
\* but the order.
C8_DeckComposition ==
    LET n == Len(gameState.players)
        handSize == IF n <= 7 THEN 5 ELSE IF n <= 9 THEN 4 ELSE 3
        witches == IF n <= 5 THEN 1 ELSE 2
    IN /\ n \in 4..12
       /\ Len(deck) = n * handSize
       /\ CountOf(deck, WITCH) = witches
       /\ CountOf(deck, CONSTABLE) = 1
       /\ CountOf(deck, NOT_A_WITCH) = n * handSize - witches - 1

\* a 12-participant deck whose shuffle has finished and moved both WITCH cards
C8_Witness ==
    /\ Len(gameState.players) = 12
    /\ shuffleIdx = 1
    /\ deck[1] # WITCH /\ deck[2] # WITCH

----------------------------------------------------------------------------
(* Properties of the action processor and the phase machine (EngineSpec) *)

\* C2: GAME_OVER is absorbing: no operation applied to a state whose phase is
\* GAME_OVER produces a state whose phase is not GAME_OVER.
C2_GameOverAbsorbing ==
    [][gameState.phase = GAME_OVER => gameState'.phase = GAME_OVER]_vars

\* the states processPlayerAction returns for the inputs EngineSpec offers
ActionResults(state) ==
    {processPlayerAction(state, a, "ACCUSE_START", [NoData EXCEPT !.targetId = t], 0) :
        a \in Actors(state.players), t \in Targets(state.players)}
    \cup {processPlayerAction(state, a, kind, NoData, 0) :
        a \in Actors(state.players),
        kind \in {"ACCUSE_ACCEPT", "ACCUSE_CANCEL", "GUARD_SKIP", "CONFESSION_PASS",
                  "TRIGGER_CONSPIRACY", "NIGHT_CONFIRM"}}
    \cup {processPlayerAction(state, a, "ACCUSE_REVEAL", [NoData EXCEPT !.cardId = c], 0) :
        a \in Actors(state.players), c \in CardChoices(PendingTargetHand(state))}
    \cup {processPlayerAction(state, a, kind, [NoData EXCEPT !.targetId = t], 0) :
        a \in Actors(state.players), t \in Targets(state.players),
        kind \in {"BLACK_CAT", "KILL_VOTE", "GUARD_VOTE"}}
    \cup UNION {{processPlayerAction(state, a, "SELF_REVEAL",
                                     [NoData EXCEPT !.cardId = c], 0) :
                    c \in CardChoices(HandOfId(state.players, a))} :
                 a \in Actors(state.players)}
    \cup {processPlayerAction(state, a, "SHUFFLE_HAND", NoData, u) :
        a \in Actors(state.players), u \in ShuffleDraws}
    \cup {processPlayerAction(state, a, "NIGHT_DAMAGE_SELECT",
                              [NoData EXCEPT !.cardIds = S], 0) :
        a \in Actors(state.players), S \in DamageChoices(DamageTargetHand(state))}
    \cup UNION {{processPlayerAction(state, a, "CONSPIRACY_SELECT",
                                     [NoData EXCEPT !.cardId = c], u) :
                    c \in CardChoices(LeftNeighborHand(state.players, a)),
                    u \in ShuffleDraws} :
                 a \in Actors(state.players)}

\* the states processPlayerAction, resolveNight and applyNightDamage return
MutatingResults(state) ==
    ActionResults(state)
    \cup {resolveNight(state, targetDies) : targetDies \in BOOLEAN}
    \cup {applyNightDamage(state, S) : S \in DamageChoices(DamageTargetHand(state))}

\* result r of an operation on state has a win entry naming the side that
\* checkWinCondition returns for r as the last of the entries the operation added
WinLoggedInStep(state, r) ==
    /\ Len(r.logs) > Len(state.logs)
    /\ r.logs[Len(r.logs)] = WinLog(checkWinCondition(r.players, r.isSmallGameMode))

\* C3: the win condition is re-evaluated after every state-mutating operation
\* (processPlayerAction, resolveNight, applyNightDamage): whenever
\* checkWinCondition returns a side for the resulting roster, the resulting
\* phase is GAME_OVER and a log entry naming that side was appended in that
\* same step.
C3_WinReevaluated ==
    \A r \in MutatingResults(gameState) :
       (r # gameState /\ checkWinCondition(r.players, r.isSmallGameMode) # NoWin)
          => (r.phase = GAME_OVER /\ WinLoggedInStep(gameState, r))

\* resolveNight(state, TRUE) hands the damage over to a card selection
Defers(state) ==
    /\ state.isSmallGameMode
    /\ state.nightKillTargetId # NullId
    /\ HasId(state.players, state.nightKillTargetId)
    /\ damageChooserId(state, state.nightKillTargetId) # NullId

WinForces(state, r) ==
    checkWinCondition(r.players, r.isSmallGameMode) # NoWin
       => (r.phase = GAME_OVER /\ WinLoggedInStep(state, r))

C3_WinReevaluatedUnlessOver ==
    /\ gameState.phase # GAME_OVER =>
           \A r \in ActionResults(gameState) : WinForces(gameState, r)
    /\ WinForces(gameState, resolveNight(gameState, FALSE))
    /\ ~Defers(gameState) => WinForces(gameState, resolveNight(gameState, TRUE))
    /\ gameState.nightDamageSelection # <<>> =>
           \A S \in DamageChoices(DamageTargetHand(gameState)) :
              WinForces(gameState, applyNightDamage(gameState, S))

\* C9: card conservation: the deal puts deck entry i into exactly one hand as
\* the card of id i, and in every later state every card id of the deal occurs
\* exactly once across all hands with its dealt type and no other card exists:
\* the totals of WITCH, CONSTABLE and NOT_A_WITCH cards stay those of the
\* dealt deck.
C9_CardConservation ==
    LET cards == FlatCards(gameState.players)
    IN /\ Len(cards) = Len(deck)
       /\ \A id \in 1..Len(deck) :
            /\ Cardinality({i \in 1..Len(cards) : cards[i].id = id}) = 1
            /\ \A i \in 1..Len(cards) : cards[i].id = id => cards[i].type = deck[id]
       /\ \A t \in CardType : CountType(cards, t) = CountOf(deck, t)

\* the seat (1-based) the deal gave card id to
DealtSeat(id, players) == ((id - 1) \div getCardsPerPlayer(Len(players))) + 1

\* a conspiracy has passed the WITCH card to another hand, whose size has grown
C9_Witness ==
    \E k \in Seats : \E i \in 1..Len(Roster[k].cards) :
       /\ DealtSeat(Roster[k].cards[i].id, Roster) # k
       /\ Roster[k].cards[i].type = WITCH
       /\ Len(Roster[k].cards) > getCardsPerPlayer(Len(Roster))

----------------------------------------------------------------------------
(* Properties of the host (Spec, LobbySpec) *)

\* no card of the hand shows the role of an unrevealed card
HandMasked(cards) ==
    \A i \in 1..Len(cards) : cards[i].isRevealed \/ cards[i].type = MASKED

\* message m carries a roster in which only the hand of the entity the recipient
\* plays (none, for a broadcast) may show the role of an unrevealed card
RosterMasked(m) ==
    \A k \in 1..Len(m.gameState.players) :
       m.gameState.players[k].id # m.playerId => HandMasked(m.gameState.players[k].cards)

\* message m carries the hand of the entity it is addressed to
OwnHand(m) ==
    \E k \in 1..Len(gameState.players) :
       /\ gameState.players[k].id = m.playerId
       /\ gameState.players[k].cards = m.cards
       /\ m.to \in {gameState.players[k].id, gameState.players[k].peerId}

\* C1: no message the host sends (the UPDATE_STATE broadcast, WELCOME on join or
\* rejoin, UPDATE_HAND) carries the role of an unrevealed card that is in the
\* hand of an entity other than the recipient's: UPDATE_STATE and WELCOME carry
\* such a card masked, UPDATE_HAND carries the recipient's own hand.
C1_WireConfidential ==
    \A m \in wire :
       /\ m.type \in {"UPDATE_STATE", "WELCOME"} => RosterMasked(m)
       /\ m.type = "UPDATE_HAND" => OwnHand(m)

\* the same for the messages of the broadcast effect and for WELCOME in the lobby
C1_BroadcastConfidential ==
    \A m \in wire :
       /\ m.type = "UPDATE_STATE" => RosterMasked(m)
       /\ (m.type = "WELCOME" /\ m.gameState.phase = LOBBY) => RosterMasked(m)
       /\ m.type = "UPDATE_HAND" => OwnHand(m)

\* C10: ghost synthesis at game start. With exactly 2 real participants the roster
\* becomes [P1, Ghost1, P2, Ghost2], with exactly 3 one ghost is appended after
\* the last real seat, with 4 or more no ghost is added; small-game mode is set
\* exactly when the real participant count is 2 or 3, and in small-game mode the
\* deal is that of the 4-entity row: 20 cards, 5 per entity (ghosts included),
\* 1 WITCH and 1 CONSTABLE.
C10_GhostSynthesis ==
    [][(gameState.phase = LOBBY /\ gameState'.phase = SETUP) =>
         LET P == gameState.players
             Q == gameState'.players
             n == Len(P)
             Same(k, j) == Q[k].id = P[j].id /\ ~Q[k].isGhost
         IN /\ n = 2 => /\ Len(Q) = 4
                        /\ Same(1, 1) /\ Q[2].isGhost /\ Same(3, 2) /\ Q[4].isGhost
                        /\ Q[2].id # Q[4].id
            /\ n = 3 => /\ Len(Q) = 4
                        /\ \A k \in 1..3 : Same(k, k)
                        /\ Q[4].isGhost
            /\ n >= 4 => /\ Len(Q) = n
                         /\ \A k \in 1..n : Same(k, k)
            /\ gameState'.isSmallGameMode <=> n \in {2, 3}
            /\ gameState'.isSmallGameMode =>
                  /\ Len(FlatCards(Q)) = 20
                  /\ \A k \in 1..Len(Q) : Len(Q[k].cards) = 5
                  /\ CountType(FlatCards(Q), WITCH) = 1
                  /\ CountType(FlatCards(Q), CONSTABLE) = 1
                  /\ CountType(FlatCards(Q), NOT_A_WITCH) = 18
      ]_vars

\* a 2-participant game was started: ghosts sit at seats 2 and 4 with hands of 5
C10_Witness ==
    /\ gameState.phase = SETUP
    /\ gameState.isSmallGameMode
    /\ Len(gameState.players) = 4
    /\ ~gameState.players[1].isGhost /\ ~gameState.players[3].isGhost
    /\ gameState.players[2].isGhost /\ gameState.players[4].isGhost
    /\ Len(gameState.players[2].cards) = 5 /\ Len(gameState.players[4].cards) = 5

----------------------------------------------------------------------------
(* ConspiracySpec: one conspiracy of a dealt game.  The host's player opens *)
(* it with TRIGGER_CONSPIRACY, then every living real participant sends one *)
(* CONSPIRACY_SELECT, in any order; the last one resolves the conspiracy.   *)

\* the card ids a selector names: the first hidden card of its left
\* neighbour's hand, that hand's first hidden Witch card, the first card of the
\* hand two seats to its left, and an id that is no card
SelectionChoices(players, id) ==
    LET hand == LeftNeighborHand(players, id)
        far == LeftNeighborHand(players, getLeftNeighborId(players, id))
        hidden == hiddenCards(hand)
    IN (IF hidden = <<>> THEN {} ELSE {hidden[1].id})
         \cup (IF FirstHidden(hand, WITCH) = 0 THEN {} ELSE {hand[FirstHidden(hand, WITCH)].id})
         \cup (IF far = <<>> THEN {} ELSE {far[1].id})
         \cup {NullId}

\* the living real participants that have not selected yet
Unselected(state) ==
    {state.players[k].id : k \in {k \in 1..Len(state.players) :
        /\ IsLivingReal(state.players[k])
        /\ \A i \in 1..Len(state.conspiracySelections) :
              state.conspiracySelections[i].playerId # state.players[k].id}}

ConspiracyBegin ==
    /\ gameState.phase = SETUP
    /\ \E a \in FirstSeat(gameState.players) :
          gameState' = processPlayerAction(gameState, a, "TRIGGER_CONSPIRACY", NoData, 0)
    /\ UNCHANGED <<isHost, wire, deck, shuffleIdx, ops, net, hist>>

ConspiracyChoose ==
    /\ gameState.phase = CONSPIRACY
    /\ \E a \in Unselected(gameState), u \in ShuffleDraws :
          \E c \in SelectionChoices(gameState.players, a) :
             gameState' = processPlayerAction(gameState, a, "CONSPIRACY_SELECT",
                                              [NoData EXCEPT !.cardId = c], u)
    /\ UNCHANGED <<isHost, wire, deck, shuffleIdx, ops, net, hist>>

ConspiracyNext == ConspiracyBegin \/ ConspiracyChoose

ConspiracySpec == EngineInit /\ [][ConspiracyNext]_vars

CardIds(cards) == {cards[i].id : i \in 1..Len(cards)}

\* the id of the living entity whose left neighbour is id
RightNeighborId(players, id) ==
    LET alive == aliveEntities(players)
    IN CHOOSE r \in Ids(alive) : getLeftNeighborId(players, r) = id

\* C11: after the deal every entity's hand keeps the size of its dealt allotment:
\* no operation changes the size of a hand, and the step that resolves a
\* conspiracy is an exchange in which every living entity (ghosts included)
\* gives exactly one card to its right neighbour and receives exactly one card
\* from its left neighbour.
C11_HandSizesKept ==
    [][LET P == gameState.players
           Q == gameState'.players
       IN /\ Len(Q) = Len(P)
          /\ \A k \in 1..Len(P) :
                /\ Len(Q[k].cards) = Len(P[k].cards)
                /\ Len(Q[k].cards) = getCardsPerPlayer(Len(Q))
          /\ (gameState.phase = CONSPIRACY /\ gameState'.phase # CONSPIRACY) =>
                \A k \in 1..Len(P) :
                   ~P[k].isDead =>
                      LET given == CardIds(P[k].cards) \ CardIds(Q[k].cards)
                          received == CardIds(Q[k].cards) \ CardIds(P[k].cards)
                          right == IndexOfId(Q, RightNeighborId(P, P[k].id))
                      IN /\ Cardinality(given) = 1
                         /\ given \subseteq CardIds(Q[right].cards)
                         /\ Cardinality(received) = 1
                         /\ received \subseteq CardIds(LeftNeighborHand(P, P[k].id))
      ]_vars

\* the roster a conspiracy resolves to when the real participants' selections
\* are given: the ghosts' selections are pushed after them, then the transfers
\* are built and executed in that order
ResolvedPlayers(state, selections, u) ==
    applyTransfers(state.players,
                   CardTransfers(state.players,
                                 selections \o GhostSelections(aliveEntities(state.players), 1, u)),
                   u)

\* the selections in the order perm (a permutation of their indices)
Reordered(selections, perm) == [i \in 1..Len(selections) |-> selections[perm[i]]]

SameHands(P, Q) ==
    /\ Len(P) = Len(Q)
    /\ \A k \in 1..Len(P) : CardIds(P[k].cards) = CardIds(Q[k].cards)

\* C12: a conspiracy is resolved from one snapshot of the hands before any
\* transfer: a card an entity has received was in its left neighbour's hand
\* before the resolution (so a selector receives its selected card only if the
\* card was there, and no card received in a resolution is passed on within it),
\* and the resulting hands are the same for every order in which the
\* selections arrived.
C12_SnapshotResolution ==
    [][(gameState.phase = CONSPIRACY /\ gameState'.phase # CONSPIRACY) =>
         LET P == gameState.players
             Q == gameState'.players
         IN /\ \A k \in 1..Len(P) :
                  (CardIds(Q[k].cards) \ CardIds(P[k].cards))
                     \subseteq CardIds(LeftNeighborHand(P, P[k].id))
            /\ \A a \in Unselected(gameState), u \in Rand :
               \A c \in CardIds(FlatCards(P)) \cup {NullId} :
                  gameState' = processPlayerAction(gameState, a, "CONSPIRACY_SELECT",
                                                   [NoData EXCEPT !.cardId = c], u)
                  => LET arrived == Append(gameState.conspiracySelections,
                                           [playerId |-> a, selectedCardId |-> c])
                     IN \A perm \in Permutations(1..Len(arrived)) :
                           SameHands(Q, ResolvedPlayers(gameState, Reordered(arrived, perm), u))
      ]_vars

----------------------------------------------------------------------------
(* VoteSpec: KILL_VOTE and BLACK_CAT actions arriving in any order from any *)
(* sender in a dealt game.  hist records the votes the processor applied    *)
(* (voter and target both found in the roster), oldest first.              *)

\* the entities a vote names: the first seat, the last seat and an id that is
\* no entity
VoteTargets(players) == {players[1].id, players[Len(players)].id, StrangerId}

\* the guard 'if (voter && target)' of BLACK_CAT and KILL_VOTE
VoteApplied(state, playerId, targetId) ==
    HasId(state.players, playerId) /\ HasId(state.players, targetId)

Vote(kind) ==
    /\ Len(hist) < MaxVotes
    /\ \E a \in Actors(gameState.players), t \in VoteTargets(gameState.players) :
          /\ gameState' = processPlayerAction(gameState, a, kind,
                                              [NoData EXCEPT !.targetId = t], 0)
          /\ hist' = IF VoteApplied(gameState, a, t)
                     THEN Append(hist, [kind |-> kind, voterId |-> a, targetId |-> t])
                     ELSE hist
    /\ UNCHANGED <<isHost, wire, deck, shuffleIdx, ops, net>>

VoteKill == isHost /\ Vote("KILL_VOTE")

VoteBlackCat == isHost /\ Vote("BLACK_CAT")

VoteNext == VoteKill \/ VoteBlackCat

VoteSpec == EngineInit /\ [][VoteNext]_vars

\* the index of the last vote of hist that satisfies Test, 0 if there is none
LastVote(Test(_)) ==
    LET idx == {i \in 1..Len(hist) : Test(hist[i])}
    IN IF idx = {} THEN 0 ELSE CHOOSE i \in idx : \A j \in idx : j <= i

\* C13: after any sequence of KILL_VOTE and BLACK_CAT actions, in any order and
\* from any voters, witchVotes holds at most one entry per voter, the entry of a
\* voter names the target of that voter's most recent applied vote (a re-vote
\* supersedes, it does not accumulate), and nightKillTargetId is the target of
\* the most recently applied KILL_VOTE.
C13_VotesSupersede ==
    LET votes == gameState.witchVotes
        lastKill == LastVote(LAMBDA h : h.kind = "KILL_VOTE")
    IN /\ \A i, j \in 1..Len(votes) : votes[i].voterId = votes[j].voterId => i = j
       /\ \A v \in {hist[i].voterId : i \in 1..Len(hist)} :
             \E i \in 1..Len(votes) :
                /\ votes[i].voterId = v
                /\ votes[i].targetId = hist[LastVote(LAMBDA h : h.voterId = v)].targetId
       /\ gameState.nightKillTargetId =
             (IF lastKill = 0 THEN NullId ELSE hist[lastKill].targetId)

\* a voter has voted twice for different targets, another voter has voted too,
\* and the last vote is a BLACK_CAT naming another target than the last KILL_VOTE
C13_Witness ==
    /\ Len(hist) = 3
    /\ hist[1].voterId = hist[2].voterId /\ hist[1].targetId # hist[2].targetId
    /\ hist[3].voterId # hist[1].voterId
    /\ hist[2].kind = "KILL_VOTE" /\ hist[3].kind = "BLACK_CAT"
    /\ hist[3].targetId # hist[2].targetId
    /\ Len(gameState.witchVotes) >= 2

----------------------------------------------------------------------------
(* Properties of the action processor on EngineSpec *)

\* C14: confirmation is idempotent. nightConfirmations never holds an id twice,
\* and a NIGHT_CONFIRM from an entity that has already confirmed in the current
\* night step changes neither nightConfirmations nor the fake-vote tally,
\* whatever fake target it names.
C14_ConfirmIdempotent ==
    LET confirmations == gameState.nightConfirmations
    IN /\ \A i, j \in 1..Len(confirmations) : confirmations[i] = confirmations[j] => i = j
       /\ \A a \in Range(confirmations) :
          \A t \in Ids(gameState.players) \cup {NullId, StrangerId} :
             LET again == processPlayerAction(gameState, a, "NIGHT_CONFIRM",
                                              [NoData EXCEPT !.fakeTargetId = t], 0)
             IN /\ again.nightConfirmations = confirmations
                /\ again.fakeVotes = gameState.fakeVotes

\* two entities have confirmed and a fake vote has been tallied
C14_Witness ==
    /\ Len(gameState.nightConfirmations) = 2
    /\ DOMAIN gameState.fakeVotes # {}

----------------------------------------------------------------------------
(* Rejected actions, the input object of the processor and JOIN *)

\* the actions the processor's handlers refuse: a kind that no branch handles,
\* or a branch whose guard fails
Rejected(state, playerId, action, data) ==
    \/ action \notin ActionKinds
    \/ /\ action \in {"ACCUSE_START", "BLACK_CAT", "KILL_VOTE"}
       /\ ~HasId(state.players, playerId) \/ ~HasId(state.players, data.targetId)
    \/ /\ action = "ACCUSE_ACCEPT"
       /\ state.pendingAccusation = <<>> \/ state.pendingAccusation[1].targetId # playerId
    \/ /\ action \in {"ACCUSE_CANCEL", "ACCUSE_REVEAL"}
       /\ state.pendingAccusation = <<>>
    \/ /\ action = "NIGHT_DAMAGE_SELECT"
       /\ state.nightDamageSelection = <<>> \/ state.nightDamageSelection[1].chooserId # playerId

\* the actions offered to the rejection properties
RejectionInputs(state) ==
    {Input(a, kind, [NoData EXCEPT !.targetId = t], 0) :
        a \in Actors(state.players),
        t \in Targets(state.players) \cup {StrangerId},
        kind \in ActionKinds \cup {"UNKNOWN"}}

\* C17: a rejected action leaves the state unchanged. processPlayerAction called
\* with an unrecognised action kind, or with an action whose precondition fails
\* (unknown actor or target, wrong caller, no pending accusation), returns a
\* state equal to its input in every field, in every phase, LOBBY included.
C17_RejectedUnchanged ==
    \A in \in RejectionInputs(gameState) :
       Rejected(gameState, in.playerId, in.action, in.data) =>
          processPlayerAction(gameState, in.playerId, in.action, in.data, in.u) = gameState

\* the same where the closing win check does not fire: the phase is GAME_OVER or
\* the roster wins for nobody
C17_RejectedUnchangedUnlessWin ==
    \A in \in RejectionInputs(gameState) :
       (/\ Rejected(gameState, in.playerId, in.action, in.data)
        /\ \/ gameState.phase = GAME_OVER
           \/ checkWinCondition(gameState.players, gameState.isSmallGameMode) = NoWin) =>
          processPlayerAction(gameState, in.playerId, in.action, in.data, in.u) = gameState

\* the value of the object passed as 'state' once processPlayerAction has
\* returned. updates = {...state} copies the fields, so updates.players is the
\* input's own array of the input's own player objects; ACCUSE_REVEAL,
\* SELF_REVEAL, SHUFFLE_HAND and SHUFFLE_GHOST write to those objects in place
\* and never reassign updates.players, every other branch builds new objects
inputAfterCall(state, playerId, action, data, u) ==
    IF action \in {"ACCUSE_REVEAL", "SELF_REVEAL", "SHUFFLE_HAND", "SHUFFLE_GHOST"}
    THEN [state EXCEPT !.players = actionUpdates(state, playerId, action, data, u).players]
    ELSE state

NonRandomKinds ==
    ActionKinds \ {"SHUFFLE_HAND", "SHUFFLE_GHOST",
                   "CONSPIRACY_SELECT", "CONSPIRACY_SELECT_FOR_OTHER"}

\* C18: processPlayerAction is copy-on-write. After any call the input state's
\* entities, hands and card flags are as before the call, and a second
\* application of the same non-random action to the same input object returns
\* the same result as the first.
C18_CopyOnWrite ==
    \A in \in ActionInputs(gameState) :
       LET input == inputAfterCall(gameState, in.playerId, in.action, in.data, in.u)
       IN /\ input.players = gameState.players
          /\ in.action \in NonRandomKinds =>
                processPlayerAction(input, in.playerId, in.action, in.data, in.u)
                   = processPlayerAction(gameState, in.playerId, in.action, in.data, in.u)

\* C19: JOIN from a new connection is rejected with an ERROR message and leaves
\* the GameState unchanged (roster, transport addresses, log) when, in LOBBY,
\* the name is already used by a roster entity, and when, after the game has
\* started, no entity with that name is currently marked disconnected.
C19_JoinRejected ==
    isHost =>
       \A connId \in ConnIds(gameState.players) \ Ids(gameState.players) :
       \A name \in {connId, HostId, 2, StrangerId} :
          LET held == \E k \in 1..Len(gameState.players) :
                         /\ gameState.players[k].name = name
                         /\ gameState.players[k].isDisconnected
              refused == IF gameState.phase = LOBBY
                         THEN HasName(gameState.players, name)
                         ELSE ~held
          IN refused =>
                /\ joinState(gameState, connId, name) = gameState
                /\ joinMessages(gameState, connId, name)
                      = {Message("ERROR", connId, NullId, NoState, <<>>)}

\* the two cases as the handler decides them: in LOBBY a used name, after the
\* start a name that no entity bears
C19_JoinRejectedUnknownName ==
    isHost =>
       \A connId \in ConnIds(gameState.players) \ Ids(gameState.players) :
       \A name \in {connId, HostId, 2, StrangerId} :
          LET refused == IF gameState.phase = LOBBY
                         THEN HasName(gameState.players, name)
                         ELSE ~HasName(gameState.players, name)
          IN refused <=>
                /\ joinState(gameState, connId, name) = gameState
                /\ joinMessages(gameState, connId, name)
                      = {Message("ERROR", connId, NullId, NoState, <<>>)}

----------------------------------------------------------------------------
(* NightSpec: the host runs a game through its phases.  From the lobby the  *)
(* game is started, the host advances the phases, the first participant    *)
(* casts the kill vote in NIGHT_WITCH_VOTE, participants confess a card in  *)
(* NIGHT_CONFESSION, the host resolves the night and the chooser of a small *)
(* game's night damage selects the cards; in DAY the host may open a        *)
(* conspiracy.                                                             *)

NightInit ==
    /\ \E n \in MIN_PLAYERS..MinTable :
         gameState = [INITIAL_GAME_STATE EXCEPT !.players = LobbyRoster(n)]
    /\ isHost = TRUE
    /\ wire = {}
    /\ deck = <<>>
    /\ shuffleIdx = 0
    /\ ops = 0
    /\ net = 0
    /\ hist = <<>>

NightStep(next) ==
    /\ gameState' = next
    /\ UNCHANGED <<isHost, wire, deck, shuffleIdx, ops, net, hist>>

NightStart ==
    /\ gameState.phase = LOBBY
    /\ \E u \in Rand :
         /\ gameState' = startGame(gameState, u)
         /\ deck' = generateDeck(Len(withGhosts(gameState.players)), u)
    /\ UNCHANGED <<isHost, wire, shuffleIdx, ops, net, hist>>

NightAdvance ==
    /\ gameState.phase \notin {LOBBY, GAME_OVER, NIGHT_RESOLUTION}
    /\ gameState.nightDamageSelection = <<>>
    /\ \E u \in {0, RandDen - 1} : NightStep(advancePhase(gameState, u))

\* the first participant votes once in a night, for the second or the last seat
NightKillVote ==
    /\ gameState.phase = NIGHT_WITCH_VOTE
    /\ \E a \in FirstSeat(gameState.players) :
         /\ a \notin Range(gameState.nightConfirmations)
         /\ \E t \in {gameState.players[2].id, gameState.players[Len(gameState.players)].id} :
               NightStep(processPlayerAction(gameState, a, "KILL_VOTE",
                                             [NoData EXCEPT !.targetId = t], 0))

\* the second participant confesses once in a night: the first hidden card of
\* its hand
NightSelfReveal ==
    /\ gameState.phase = NIGHT_CONFESSION
    /\ \E a \in {SelectSeq(gameState.players, IsReal)[2].id} :
         LET hidden == hiddenCards(HandOfId(gameState.players, a))
         IN /\ a \notin Range(gameState.nightConfirmations)
            /\ hidden # <<>>
            /\ NightStep(processPlayerAction(gameState, a, "SELF_REVEAL",
                                             [NoData EXCEPT !.cardId = hidden[1].id], 0))

NightResolve ==
    /\ gameState.phase = NIGHT_RESOLUTION
    /\ gameState.nightDamageSelection = <<>>
    /\ gameState.turnCounter < MaxNights
    /\ \E targetDies \in BOOLEAN : NightStep(resolveNight(gameState, targetDies))

\* the chooser, a participant, reveals the first two hidden cards of the
\* target, or the first; hist records the targets that held three hidden cards
\* and lost two
NightDamage ==
    /\ gameState.nightDamageSelection # <<>>
    /\ IsReal(FindById(gameState.players, gameState.nightDamageSelection[1].chooserId))
    /\ LET hidden == hiddenCards(DamageTargetHand(gameState))
       IN \E n \in {1, 2} :
             /\ n <= Len(hidden)
             /\ gameState' = processPlayerAction(
                    gameState, gameState.nightDamageSelection[1].chooserId,
                    "NIGHT_DAMAGE_SELECT",
                    [NoData EXCEPT !.cardIds = {hidden[i].id : i \in 1..n}], 0)
             /\ hist' = IF Len(hidden) = 3 /\ n = 2
                        THEN Append(hist, gameState.nightDamageSelection[1].targetId)
                        ELSE hist
    /\ UNCHANGED <<isHost, wire, deck, shuffleIdx, ops, net>>

NightConspiracy ==
    /\ gameState.phase = DAY
    /\ \E a \in FirstSeat(gameState.players) :
         NightStep(processPlayerAction(gameState, a, "TRIGGER_CONSPIRACY", NoData, 0))

NightNext ==
    \/ NightStart \/ NightAdvance \/ NightKillVote \/ NightSelfReveal
    \/ NightResolve \/ NightDamage \/ NightConspiracy

NightSpec == NightInit /\ [][NightNext]_vars

HiddenIds(cards) == {cards[i].id : i \in {i \in 1..Len(cards) : ~cards[i].isRevealed}}

\* the step is a NIGHT_DAMAGE_SELECT of the pending chooser that names exactly
\* two hidden cards of a pending target holding three hidden cards
PartialAttackStep ==
    /\ gameState.isSmallGameMode
    /\ gameState.nightDamageSelection # <<>>
    /\ HasId(gameState.players, gameState.nightDamageSelection[1].targetId)
    /\ LET hidden == HiddenIds(DamageTargetHand(gameState))
       IN /\ Cardinality(hidden) = 3
          /\ \E S \in SUBSET hidden :
                /\ Cardinality(S) = 2
                /\ gameState' = processPlayerAction(
                       gameState, gameState.nightDamageSelection[1].chooserId,
                       "NIGHT_DAMAGE_SELECT", [NoData EXCEPT !.cardIds = S], 0)

\* the target of a partial attack is alive with one hidden card and the entry
\* 'lost 2 card(s)' was appended
PartialAttackOutcome ==
    LET targetId == gameState.nightDamageSelection[1].targetId
        before == FindById(gameState.players, targetId)
        after == FindById(gameState'.players, targetId)
        lost == createLog("lost card(s) to the night attack.", before.name, 2)
    IN /\ ~after.isDead
       /\ Cardinality(HiddenIds(after.cards)) = 1
       /\ Len(gameState'.logs) > Len(gameState.logs)
       /\ gameState'.logs[Len(gameState.logs) + 1] = lost

\* entity k held three hidden cards and lost two of them to a night attack
\* earlier, and the step reveals its last hidden card
LastCardRevealedStep(k) ==
    /\ gameState.isSmallGameMode
    /\ k <= Len(gameState'.players)
    /\ gameState'.players[k].id = gameState.players[k].id
    /\ gameState.players[k].id \in Range(hist)
    /\ Cardinality(HiddenIds(gameState.players[k].cards)) = 1
    /\ HiddenIds(gameState'.players[k].cards) = {}

\* C16: in small-game mode a night attack is partial. When the pending target
\* has 3 hidden cards and the chooser's NIGHT_DAMAGE_SELECT names exactly 2 of
\* them, the target stays alive with exactly 1 hidden card and a 'lost 2
\* card(s)' log entry is appended; and whenever a later action reveals the
\* target's last remaining hidden card, the target is marked dead.
C16_PartialNightAttack ==
    [][/\ PartialAttackStep => PartialAttackOutcome
       /\ \A k \in 1..Len(gameState.players) :
             LastCardRevealedStep(k) => gameState'.players[k].isDead
      ]_vars

\* the first half alone
C16_PartialAttackLeavesOneCard == [][PartialAttackStep => PartialAttackOutcome]_vars

\* C20: advancePhase follows the fixed cycle SETUP -> NIGHT_INITIAL_WITCH ->
\* DAY (turn counter + 1, witch votes cleared), DAY -> NIGHT_WITCH_VOTE ->
\* NIGHT_CONSTABLE or NIGHT_CONFESSION, NIGHT_CONSTABLE -> NIGHT_CONFESSION ->
\* NIGHT_RESOLUTION; it leaves the phase unchanged in NIGHT_RESOLUTION, LOBBY,
\* CONSPIRACY and GAME_OVER and produces no other successor.
C20_PhaseCycle ==
    \A u \in Rand :
       LET next == advancePhase(gameState, u)
           from == gameState.phase
           to == next.phase
       IN /\ from = SETUP => to = NIGHT_INITIAL_WITCH
          /\ from = NIGHT_INITIAL_WITCH =>
                /\ to = DAY
                /\ next.turnCounter = gameState.turnCounter + 1
                /\ next.witchVotes = <<>>
          /\ from = DAY => to = NIGHT_WITCH_VOTE
          /\ from = NIGHT_WITCH_VOTE => to \in {NIGHT_CONSTABLE, NIGHT_CONFESSION}
          /\ from = NIGHT_CONSTABLE => to = NIGHT_CONFESSION
          /\ from = NIGHT_CONFESSION => to = NIGHT_RESOLUTION
          /\ from \in {NIGHT_RESOLUTION, LOBBY, CONSPIRACY, GAME_OVER} => to = from
          /\ from \in {SETUP, NIGHT_INITIAL_WITCH, DAY, NIGHT_WITCH_VOTE, NIGHT_CONSTABLE,
                       NIGHT_CONFESSION, NIGHT_RESOLUTION, LOBBY, CONSPIRACY, GAME_OVER}

\* the second night's vote phase of a game whose Constable card is no longer
\* active: the successor is NIGHT_CONFESSION, not NIGHT_CONSTABLE
C20_Witness ==
    /\ gameState.phase = NIGHT_WITCH_VOTE
    /\ gameState.turnCounter = 2
    /\ advancePhase(gameState, 0).phase = NIGHT_CONFESSION

----------------------------------------------------------------------------
(* The public view of the broadcast effect, on the rosters of WinSpec *)

\* C15: for every GameState the broadcast public view keeps every entity, its
\* isDead flag and the number and order of its cards; every revealed card
\* appears with its true role and every unrevealed card with role null.
C15_PublicView ==
    /\ \E m \in broadcast(gameState, TRUE) : m.type = "UPDATE_STATE"
    /\ \A m \in broadcast(gameState, TRUE) :
          m.type = "UPDATE_STATE" =>
             LET P == gameState.players
                 V == m.gameState.players
             IN /\ Len(V) = Len(P)
                /\ \A k \in 1..Len(P) :
                      /\ V[k].id = P[k].id
                      /\ V[k].name = P[k].name
                      /\ V[k].isDead = P[k].isDead
                      /\ Len(V[k].cards) = Len(P[k].cards)
                      /\ \A i \in 1..Len(P[k].cards) :
                            /\ V[k].cards[i].id = P[k].cards[i].id
                            /\ V[k].cards[i].isRevealed = P[k].cards[i].isRevealed
                            /\ V[k].cards[i].type =
                                  (IF P[k].cards[i].isRevealed
                                   THEN P[k].cards[i].type ELSE MASKED)

\* a roster with a dead entity and with an entity that holds a revealed Witch
\* card next to a hidden card
C15_Witness ==
    /\ \E k \in 1..Len(gameState.players) : gameState.players[k].isDead
    /\ \E k \in 1..Len(gameState.players) :
          \E i, j \in 1..Len(gameState.players[k].cards) :
             /\ gameState.players[k].cards[i].isRevealed
             /\ gameState.players[k].cards[i].type = WITCH
             /\ ~gameState.players[k].cards[j].isRevealed

----------------------------------------------------------------------------
(* C21: the sticky flags                                                   *)

\* the entities of a roster that hold a WITCH card
WitchHolders(players) ==
    {k \in 1..Len(players) :
        \E i \in 1..Len(players[k].cards) : players[k].cards[i].type = WITCH}

\* the ids of the cards of a roster that are face up
RevealedIds(players) ==
    UNION {{players[k].cards[i].id : i \in {i \in 1..Len(players[k].cards) :
                                              players[k].cards[i].isRevealed}} :
           k \in 1..Len(players)}

\* the ids of the entities of a roster whose hasRevealedWitch is set
FlaggedIds(players) ==
    {players[k].id : k \in {k \in 1..Len(players) : players[k].hasRevealedWitch}}

\* C21: from the deal on, every entity that holds a WITCH card has
\* hasRevealedWitch set, and no step turns a face-up card face down or clears
\* the hasRevealedWitch of an entity
C21_StickyFlags ==
    /\ [](\A k \in WitchHolders(gameState.players) :
             gameState.players[k].hasRevealedWitch)
    /\ [][/\ RevealedIds(gameState.players) \subseteq RevealedIds(gameState.players')
          /\ FlaggedIds(gameState.players) \subseteq FlaggedIds(gameState.players')]_vars

\* a WITCH card has changed hands in a conspiracy: more entities are flagged
\* than hold a WITCH card, and every holder is flagged
C21_Witness ==
    /\ Cardinality(FlaggedIds(gameState.players))
          > Cardinality(WitchHolders(gameState.players))
    /\ WitchHolders(gameState.players) # {}
    /\ \A k \in WitchHolders(gameState.players) : gameState.players[k].hasRevealedWitch

----------------------------------------------------------------------------
(* C22: disconnection and rejoin                                           *)

\* next differs from prev in the log, and in peerId and isDisconnected of the
\* seats in touched, and in nothing else
ConnectivityOnly(prev, next, touched) ==
    /\ [next EXCEPT !.players = prev.players, !.logs = prev.logs] = prev
    /\ Len(next.players) = Len(prev.players)
    /\ \A k \in 1..Len(prev.players) :
          IF k \in touched
          THEN [next.players[k] EXCEPT !.peerId = prev.players[k].peerId,
                                       !.isDisconnected = prev.players[k].isDisconnected]
                  = prev.players[k]
          ELSE next.players[k] = prev.players[k]

\* the roster without seat k
WithoutSeat(players, k) ==
    [j \in 1..(Len(players) - 1) |-> IF j < k THEN players[j] ELSE players[j + 1]]

----------------------------------------------------------------------------
(* C23: the constable sub-phase                                            *)

\* some living entity, real or ghost, holds a CONSTABLE card that is face down
ConstableInPlay(players) ==
    \E k \in 1..Len(players) :
       /\ ~players[k].isDead
       /\ \E i \in 1..Len(players[k].cards) :
             /\ players[k].cards[i].type = CONSTABLE
             /\ ~players[k].cards[i].isRevealed

\* C23: advancePhase in NIGHT_WITCH_VOTE goes to NIGHT_CONSTABLE exactly when a
\* living entity holds an unrevealed CONSTABLE card, and otherwise goes to
\* NIGHT_CONFESSION and logs 'No Constable to protect tonight.'; NIGHT_CONSTABLE
\* is never entered while no such card is in play
C23_ConstablePhase ==
    /\ [](gameState.phase = NIGHT_WITCH_VOTE =>
            \A u \in Rand :
               LET next == advancePhase(gameState, u)
               IN IF ConstableInPlay(gameState.players)
                  THEN /\ next.phase = NIGHT_CONSTABLE
                       /\ next.logs = gameState.logs
                  ELSE /\ next.phase = NIGHT_CONFESSION
                       /\ next.logs = Append(gameState.logs,
                             createLog("No Constable to protect tonight.", NullId, NullId)))
    /\ [][gameState'.phase = NIGHT_CONSTABLE /\ gameState.phase # NIGHT_CONSTABLE
             => ConstableInPlay(gameState.players)]_vars

\* the constable sub-phase was skipped in a game whose CONSTABLE card is face up
C23_Witness ==
    /\ gameState.phase = NIGHT_CONFESSION
    /\ gameState.logs # <<>>
    /\ gameState.logs[Len(gameState.logs)]
          = createLog("No Constable to protect tonight.", NullId, NullId)
    /\ ~ConstableInPlay(gameState.players)
    /\ \E k \in 1..Len(gameState.players) :
          \E i \in 1..Len(gameState.players[k].cards) :
             /\ gameState.players[k].cards[i].type = CONSTABLE
             /\ gameState.players[k].cards[i].isRevealed

----------------------------------------------------------------------------
(* C24: resolveNight and the phase                                         *)

NightSubPhases == {NIGHT_WITCH_VOTE, NIGHT_CONSTABLE, NIGHT_CONFESSION}

\* C24: resolveNight called in a phase other than NIGHT_RESOLUTION returns the
\* state it was given
C24_ResolveOnlyInResolution ==
    gameState.phase # NIGHT_RESOLUTION =>
       \A targetDies \in BOOLEAN : resolveNight(gameState, targetDies) = gameState

\* C24, through the host's buttons only: no step leads from a night sub-phase
\* before NIGHT_RESOLUTION to DAY
C24_DayAfterResolution ==
    [][gameState.phase \in NightSubPhases => gameState'.phase # DAY]_vars

----------------------------------------------------------------------------
(* C25: night resolution in small-game mode                                *)

\* a roster with every immune flag cleared
ImmunityCleared(players) ==
    [k \in 1..Len(players) |-> [players[k] EXCEPT !.immune = FALSE]]

\* the entities that may choose the cards of the attacked entity: its left
\* neighbour among the living, or any living real participant for a ghost
DamageChoosers(players, targetId) ==
    LET living == SelectSeq(players, LAMBDA p : ~p.isDead)
        at == IndexOfId(living, targetId)
    IN IF FindById(players, targetId).isGhost
       THEN {players[k].id : k \in {k \in 1..Len(players) :
                                       ~players[k].isGhost /\ ~players[k].isDead}}
       ELSE IF at = 0 THEN {}
       ELSE {living[IF at = 1 THEN Len(living) ELSE at - 1].id}

\* the night of a started game waits for the host's resolution and a target
\* was chosen
AwaitsResolution(state) ==
    /\ state.phase = NIGHT_RESOLUTION
    /\ state.nightDamageSelection = <<>>
    /\ state.nightKillTargetId # NullId

\* C25: in small-game mode resolveNight(true) with a chosen target changes no
\* isDead and no card, clears every immune flag, records the pending
\* nightDamageSelection for nightKillTargetId with its left living neighbour
\* (for a ghost: a living real participant) as chooser, and leaves every other
\* field but the log as it was
C25_SmallGameDeferral ==
    (gameState.isSmallGameMode /\ AwaitsResolution(gameState)) =>
       LET next == resolveNight(gameState, TRUE)
       IN /\ next.players = ImmunityCleared(gameState.players)
          /\ Len(next.nightDamageSelection) = 1
          /\ next.nightDamageSelection[1].targetId = gameState.nightKillTargetId
          /\ next.nightDamageSelection[1].pendingReveal
          /\ next.nightDamageSelection[1].chooserId
                \in DamageChoosers(gameState.players, gameState.nightKillTargetId)
          /\ next.phase = gameState.phase
          /\ next.turnCounter = gameState.turnCounter
          /\ next.nightKillTargetId = gameState.nightKillTargetId
          /\ next.witchVotes = gameState.witchVotes
          /\ [next EXCEPT !.players = gameState.players, !.logs = gameState.logs,
                          !.nightDamageSelection = <<>>] = gameState

\* a small game with the selection for a real target pending after the
\* resolution, the votes of the night still recorded
C25_Witness ==
    /\ gameState.isSmallGameMode
    /\ gameState.phase = NIGHT_RESOLUTION
    /\ Len(gameState.nightDamageSelection) = 1
    /\ gameState.nightDamageSelection[1].targetId = gameState.nightKillTargetId
    /\ ~FindById(gameState.players, gameState.nightKillTargetId).isGhost
    /\ gameState.witchVotes # <<>>
    /\ \E k \in 1..Len(gameState.players) : ~gameState.players[k].immune
    /\ \A k \in 1..Len(gameState.players) : ~gameState.players[k].isDead

----------------------------------------------------------------------------
(* C26: night resolution in standard mode                                  *)

\* the roster after the night: immunity cleared, and the entity killed (if
\* any) dead with its whole hand face up
AfterNight(players, killed, dies) ==
    [k \in 1..Len(players) |->
       IF dies /\ players[k].id = killed
       THEN [players[k] EXCEPT
               !.immune = FALSE, !.isDead = TRUE,
               !.cards = [i \in 1..Len(players[k].cards) |->
                            [players[k].cards[i] EXCEPT !.isRevealed = TRUE]]]
       ELSE [players[k] EXCEPT !.immune = FALSE]]

\* C26: outside the small-game deferral, resolveNight(true) with target t
\* marks t dead with all its cards revealed, resolveNight(false) or a night
\* without target kills and reveals nothing, every immune flag is cleared and
\* no entity changes otherwise; unless the roster is won the phase becomes DAY
\* and turnCounter grows by 1, and nightKillTargetId, constableGuardId,
\* witchVotes and nightDamageSelection are reset
C26_StandardResolution ==
    \A targetDies \in BOOLEAN :
       LET killed == gameState.nightKillTargetId
           dies == targetDies /\ killed # NullId
           next == resolveNight(gameState, targetDies)
       IN (~gameState.isSmallGameMode \/ ~dies) =>
             /\ next.players = AfterNight(gameState.players, killed, dies)
             /\ next.nightKillTargetId = NullId
             /\ next.constableGuardId = NullId
             /\ next.witchVotes = <<>>
             /\ next.nightDamageSelection = <<>>
             /\ IF checkWinCondition(next.players, gameState.isSmallGameMode) = NoWin
                THEN /\ next.phase = DAY
                     /\ next.turnCounter = gameState.turnCounter + 1
                ELSE /\ next.phase = GAME_OVER
                     /\ next.turnCounter = gameState.turnCounter
             /\ [next EXCEPT !.players = gameState.players, !.logs = gameState.logs,
                             !.phase = gameState.phase,
                             !.turnCounter = gameState.turnCounter,
                             !.nightKillTargetId = gameState.nightKillTargetId,
                             !.constableGuardId = gameState.constableGuardId,
                             !.witchVotes = gameState.witchVotes,
                             !.nightDamageSelection = gameState.nightDamageSelection]
                   = gameState

\* a standard game back in DAY after a night in which the target died
C26_Witness ==
    /\ ~gameState.isSmallGameMode
    /\ gameState.phase = DAY
    /\ gameState.turnCounter >= 2
    /\ gameState.nightKillTargetId = NullId
    /\ gameState.witchVotes = <<>>
    /\ \E k \in 1..Len(gameState.players) :
          /\ gameState.players[k].isDead
          /\ \A i \in 1..Len(gameState.players[k].cards) :
                gameState.players[k].cards[i].isRevealed

----------------------------------------------------------------------------
(* C27: ACCUSE_REVEAL                                                      *)

\* the card ids tried: those of the accused's hand, the first card of every
\* other hand, and no card
RevealChoices(state) ==
    CardChoices(PendingTargetHand(state))
       \cup {state.players[k].cards[1].id :
                k \in {k \in 1..Len(state.players) : state.players[k].cards # <<>>}}

\* the accusation is accepted, playerId is its accuser and cardId is a face-down
\* card of the accused
RevealApplies(state, playerId, cardId) ==
    /\ state.pendingAccusation # <<>>
    /\ state.pendingAccusation[1].accepted
    /\ state.pendingAccusation[1].accuserId = playerId
    /\ \E k \in 1..Len(state.players) :
          /\ state.players[k].id = state.pendingAccusation[1].targetId
          /\ \E i \in 1..Len(state.players[k].cards) :
                /\ state.players[k].cards[i].id = cardId
                /\ ~state.players[k].cards[i].isRevealed

\* the accused after the reveal of cardId
Accused(p, cardId) ==
    LET isWitch == \E i \in 1..Len(p.cards) :
                      p.cards[i].id = cardId /\ p.cards[i].type = WITCH
        cards == [i \in 1..Len(p.cards) |->
                    IF isWitch \/ p.cards[i].id = cardId
                    THEN [p.cards[i] EXCEPT !.isRevealed = TRUE]
                    ELSE p.cards[i]]
    IN [p EXCEPT
          !.cards = cards,
          !.isDead = @ \/ isWitch \/ \A i \in 1..Len(cards) : cards[i].isRevealed]

\* C27: ACCUSE_REVEAL from the accuser of an accepted accusation naming a
\* face-down card of the accused reveals that card, reveals the whole hand and
\* marks the accused dead if it is WITCH, marks the accused dead if no hidden
\* card remains, changes no other entity and clears the accusation; any other
\* ACCUSE_REVEAL returns the state it was given
C27_AccuseReveal ==
    \A a \in Actors(gameState.players), c \in RevealChoices(gameState) :
       LET next == processPlayerAction(gameState, a, "ACCUSE_REVEAL",
                                       [NoData EXCEPT !.cardId = c], 0)
       IN IF RevealApplies(gameState, a, c)
          THEN /\ next.pendingAccusation = <<>>
               /\ next.players =
                     [k \in 1..Len(gameState.players) |->
                        IF gameState.players[k].id = gameState.pendingAccusation[1].targetId
                        THEN Accused(gameState.players[k], c)
                        ELSE gameState.players[k]]
          ELSE next = gameState

\* C27 where the closing win check of processPlayerAction has nothing to end:
\* the game is over or the roster wins for nobody
C27_AccuseRevealUnlessWin ==
    (\/ gameState.phase = GAME_OVER
     \/ checkWinCondition(gameState.players, gameState.isSmallGameMode) = NoWin)
       => C27_AccuseReveal

----------------------------------------------------------------------------
(* C28: ACCUSE_START                                                       *)

\* the pending accusation after ACCUSE_START from playerId against targetId
AfterAccuseStart(state, playerId, targetId) ==
    processPlayerAction(state, playerId, "ACCUSE_START",
                        [NoData EXCEPT !.targetId = targetId], 0).pendingAccusation

\* C28: while an accusation is pending, ACCUSE_START leaves it as it is
C28_PendingAccusationKept ==
    gameState.pendingAccusation # <<>> =>
       \A a \in Actors(gameState.players),
          t \in Targets(gameState.players) \cup {StrangerId} :
          AfterAccuseStart(gameState, a, t) = gameState.pendingAccusation

\* C28, with no accusation pending: ACCUSE_START creates one exactly when the
\* sender is seated and the target is a living entity, and it is accepted at
\* once exactly when the target is a ghost
C28_AccusationCreated ==
    gameState.pendingAccusation = <<>> =>
       \A a \in Actors(gameState.players),
          t \in Targets(gameState.players) \cup {StrangerId} :
          LET after == AfterAccuseStart(gameState, a, t)
              alive == \E k \in 1..Len(gameState.players) :
                          gameState.players[k].id = t /\ ~gameState.players[k].isDead
          IN /\ after # <<>> <=> (alive /\ HasId(gameState.players, a))
             /\ after # <<>> =>
                   /\ after[1].accuserId = a
                   /\ after[1].targetId = t
                   /\ after[1].accepted = FindById(gameState.players, t).isGhost

----------------------------------------------------------------------------
(* C29: the votes of the ghost witches                                     *)

\* the entries of witchVotes cast for the entity id
VotesOf(state, id) ==
    SelectSeq(state.witchVotes, LAMBDA v : v.voterId = id)

LivingGhostWitches(state) ==
    {k \in 1..Len(state.players) :
        /\ state.players[k].isGhost
        /\ state.players[k].hasRevealedWitch
        /\ ~state.players[k].isDead}

\* C29: after every applied KILL_VOTE or BLACK_CAT each living ghost witch has
\* exactly one entry in witchVotes, and it names the target of the latest vote
C29_GhostsMirrorVote ==
    hist # <<>> =>
       \A k \in LivingGhostWitches(gameState) :
          LET own == VotesOf(gameState, gameState.players[k].id)
          IN /\ Len(own) = 1
             /\ own[1].targetId = hist[Len(hist)].targetId

\* C29 as the code has it: each living ghost witch has exactly one entry, and
\* it names the target of the first vote applied
C29_GhostsKeepFirstVote ==
    hist # <<>> =>
       \A k \in LivingGhostWitches(gameState) :
          LET own == VotesOf(gameState, gameState.players[k].id)
          IN /\ Len(own) = 1
             /\ own[1].targetId = hist[1].targetId

----------------------------------------------------------------------------
(* C30: who may vote, and for whom                                         *)

\* the fields a witch vote writes
VoteFields(state) ==
    <<state.witchVotes, state.nightKillTargetId, state.nightConfirmations,
      [k \in 1..Len(state.players) |-> state.players[k].hasBlackCat]>>

\* id names a living entity of the roster
IsLivingId(state, id) ==
    \E k \in 1..Len(state.players) :
       state.players[k].id = id /\ ~state.players[k].isDead

\* id names a living witch-aligned entity of the roster
IsLivingWitchId(state, id) ==
    \E k \in 1..Len(state.players) :
       /\ state.players[k].id = id
       /\ ~state.players[k].isDead
       /\ state.players[k].hasRevealedWitch

\* C30: a KILL_VOTE or BLACK_CAT whose sender is not a living witch-aligned
\* entity, or whose target is not a living entity, leaves witchVotes,
\* nightKillTargetId, the hasBlackCat flags and nightConfirmations unchanged
C30_VoteRefused ==
    \A kind \in {"KILL_VOTE", "BLACK_CAT"} :
       \A a \in Actors(gameState.players),
          t \in Targets(gameState.players) \cup {StrangerId} :
          (~IsLivingWitchId(gameState, a) \/ ~IsLivingId(gameState, t)) =>
             VoteFields(processPlayerAction(gameState, a, kind,
                                            [NoData EXCEPT !.targetId = t], 0))
                = VoteFields(gameState)

\* C30 as the code has it: the vote is refused exactly when the sender or the
\* target is not in the roster
C30_VoteRefusedIfUnknown ==
    \A kind \in {"KILL_VOTE", "BLACK_CAT"} :
       \A a \in Actors(gameState.players),
          t \in Targets(gameState.players) \cup {StrangerId} :
          LET next == processPlayerAction(gameState, a, kind,
                                          [NoData EXCEPT !.targetId = t], 0)
          IN IF HasId(gameState.players, a) /\ HasId(gameState.players, t)
             THEN /\ a \in Range(next.nightConfirmations)
                  /\ Len(VotesOf(next, a)) = 1
                  /\ VotesOf(next, a)[1].targetId = t
                  /\ kind = "KILL_VOTE" => next.nightKillTargetId = t
                  /\ kind = "BLACK_CAT" =>
                        \A k \in 1..Len(next.players) :
                           next.players[k].hasBlackCat <=> next.players[k].id = t
             ELSE VoteFields(next) = VoteFields(gameState)

----------------------------------------------------------------------------
(* C31: SELF_REVEAL                                                        *)

\* the immune flags of a roster, by seat
ImmuneFlags(players) == [k \in 1..Len(players) |-> players[k].immune]

\* the state after SELF_REVEAL from playerId naming cardId
AfterSelfReveal(state, playerId, cardId) ==
    processPlayerAction(state, playerId, "SELF_REVEAL",
                        [NoData EXCEPT !.cardId = cardId], 0)

\* playerId is alive, has not confessed this night (a confession sets immune,
\* which lasts until the night is resolved) and holds cardId face down, not WITCH
MayConfess(state, playerId, cardId) ==
    \E k \in 1..Len(state.players) :
       /\ state.players[k].id = playerId
       /\ ~state.players[k].isDead
       /\ ~state.players[k].immune
       /\ \E i \in 1..Len(state.players[k].cards) :
             /\ state.players[k].cards[i].id = cardId
             /\ ~state.players[k].cards[i].isRevealed
             /\ state.players[k].cards[i].type # WITCH

\* C31: a SELF_REVEAL from a dead sender, a second one in the same night, or
\* one naming a card that is not in the sender's hand, is revealed or is WITCH,
\* reveals no card and grants no immunity
C31_ConfessionRefused ==
    \A a \in Actors(gameState.players) :
       \A c \in CardChoices(HandOfId(gameState.players, a)) \cup RevealChoices(gameState) :
          ~MayConfess(gameState, a, c) =>
             LET next == AfterSelfReveal(gameState, a, c)
             IN /\ RevealedIds(next.players) = RevealedIds(gameState.players)
                /\ ImmuneFlags(next.players) = ImmuneFlags(gameState.players)

\* C31 as the code has it: SELF_REVEAL reveals the card and sets immune exactly
\* when the sender is seated and the card is in its hand
C31_ConfessionIfOwned ==
    \A a \in Actors(gameState.players) :
       \A c \in CardChoices(HandOfId(gameState.players, a)) \cup RevealChoices(gameState) :
          LET next == AfterSelfReveal(gameState, a, c)
              owned == \E k \in 1..Len(gameState.players) :
                          /\ gameState.players[k].id = a
                          /\ \E i \in 1..Len(gameState.players[k].cards) :
                                gameState.players[k].cards[i].id = c
          IN IF owned
             THEN /\ RevealedIds(next.players) = RevealedIds(gameState.players) \cup {c}
                  /\ FindById(next.players, a).immune
             ELSE /\ RevealedIds(next.players) = RevealedIds(gameState.players)
                  /\ ImmuneFlags(next.players) = ImmuneFlags(gameState.players)

----------------------------------------------------------------------------
(* C32: NIGHT_DAMAGE_SELECT                                                *)

\* the state after NIGHT_DAMAGE_SELECT from playerId naming the cards S
AfterDamageSelect(state, playerId, S) ==
    processPlayerAction(state, playerId, "NIGHT_DAMAGE_SELECT",
                        [NoData EXCEPT !.cardIds = S], 0)

\* S consists of exactly min(2, hidden cards) face-down cards of the hand
IsDamageSelection(cards, S) ==
    LET hidden == {cards[i].id : i \in {i \in 1..Len(cards) : ~cards[i].isRevealed}}
    IN /\ S \subseteq hidden
       /\ Cardinality(S) = (IF Cardinality(hidden) < 2 THEN Cardinality(hidden) ELSE 2)

\* the selection is pending in a small game, playerId is its chooser and S is
\* a selection of the target's hand
DamageSelectApplies(state, playerId, S) ==
    /\ state.isSmallGameMode
    /\ state.nightDamageSelection # <<>>
    /\ state.nightDamageSelection[1].chooserId = playerId
    /\ IsDamageSelection(DamageTargetHand(state), S)

\* the senders tried: the participants of Actors and the chooser
DamageSenders(state) ==
    Actors(state.players)
       \cup {state.nightDamageSelection[i].chooserId :
                i \in 1..Len(state.nightDamageSelection)}

\* C32: while a selection is pending, a NIGHT_DAMAGE_SELECT that is not sent
\* by its chooser in a small game, or that does not name exactly min(2, hidden)
\* face-down cards of the target, returns the state it was given
C32_DamageSelectionChecked ==
    gameState.nightDamageSelection # <<>> =>
       \A a \in DamageSenders(gameState),
          S \in DamageChoices(DamageTargetHand(gameState)) :
          ~DamageSelectApplies(gameState, a, S) =>
             AfterDamageSelect(gameState, a, S) = gameState

\* C32 for the selections the claim admits: exactly the named cards are
\* revealed, the target is dead iff no hidden card remains, no other entity
\* changes and the pending selection is cleared
C32_DamageSelectionApplied ==
    \A a \in DamageSenders(gameState),
       S \in DamageChoices(DamageTargetHand(gameState)) :
       DamageSelectApplies(gameState, a, S) =>
          LET next == AfterDamageSelect(gameState, a, S)
              targetId == gameState.nightDamageSelection[1].targetId
          IN /\ next.nightDamageSelection = <<>>
             /\ RevealedIds(next.players) = RevealedIds(gameState.players) \cup S
             /\ \A k \in 1..Len(gameState.players) :
                   IF gameState.players[k].id = targetId
                   THEN next.players[k].isDead
                           <=> \A i \in 1..Len(next.players[k].cards) :
                                  next.players[k].cards[i].isRevealed
                   ELSE next.players[k] = gameState.players[k]

\* C32 as the code has it: only the sender is checked; a NIGHT_DAMAGE_SELECT
\* from anyone but the chooser of a pending selection changes nothing while
\* the roster wins for nobody
C32_DamageSelectionByChooser ==
    checkWinCondition(gameState.players, gameState.isSmallGameMode) = NoWin =>
       \A a \in DamageSenders(gameState),
          S \in DamageChoices(DamageTargetHand(gameState)) :
          (\/ gameState.nightDamageSelection = <<>>
           \/ gameState.nightDamageSelection[1].chooserId # a)
             => AfterDamageSelect(gameState, a, S) = gameState

----------------------------------------------------------------------------
(* C33: nightConfirmations at the start of a night sub-phase               *)

ConfirmedSubPhases ==
    {NIGHT_INITIAL_WITCH, NIGHT_WITCH_VOTE, NIGHT_CONSTABLE, NIGHT_CONFESSION}

----------------------------------------------------------------------------
(* C34: the conspiracy as a side-branch of DAY                             *)

\* the card ids each seat holds
HandIds(players) == [k \in 1..Len(players) |-> CardIds(players[k].cards)]

\* the state after TRIGGER_CONSPIRACY from playerId
AfterTrigger(state, playerId) ==
    processPlayerAction(state, playerId, "TRIGGER_CONSPIRACY", NoData, 0)

\* C34: TRIGGER_CONSPIRACY leads to CONSPIRACY only from DAY and only when
\* sent by the host, and cards change hands only in steps taken while the
\* phase is CONSPIRACY
C34_ConspiracyFromDay ==
    /\ [](\A a \in Actors(gameState.players) :
             (gameState.phase # CONSPIRACY /\ AfterTrigger(gameState, a).phase = CONSPIRACY)
                => (gameState.phase = DAY /\ a = HostId))
    /\ [][HandIds(gameState'.players) # HandIds(gameState.players)
             => gameState.phase = CONSPIRACY]_vars

\* C34, the completion: TRIGGER_CONSPIRACY leaves no selection, and a step in
\* which cards change hands ends in DAY or GAME_OVER with no selection left
C34_ConspiracyResolves ==
    /\ [](\A a \in Actors(gameState.players) :
             AfterTrigger(gameState, a).conspiracySelections = <<>>)
    /\ [][HandIds(gameState'.players) # HandIds(gameState.players)
             => /\ gameState'.phase \in {DAY, GAME_OVER}
                /\ gameState'.conspiracySelections = <<>>]_vars

----------------------------------------------------------------------------
(* C35: the ghost-witch short-circuit                                      *)

\* the seats of the living witch-aligned entities that are real / ghosts
LivingWitchSeats(players, ghost) ==
    {k \in 1..Len(players) :
        /\ players[k].hasRevealedWitch
        /\ ~players[k].isDead
        /\ players[k].isGhost = ghost}

BlackCatSeats(players) == {k \in 1..Len(players) : players[k].hasBlackCat}

----------------------------------------------------------------------------
(* C36: the chooser of a pending night damage selection                    *)

\* id names a living real participant of the roster
IsLivingRealId(state, id) ==
    \E k \in 1..Len(state.players) :
       /\ state.players[k].id = id
       /\ ~state.players[k].isGhost
       /\ ~state.players[k].isDead

\* C36: the chooser of a pending night damage selection is a living real
\* participant, who can send NIGHT_DAMAGE_SELECT, and is not the target
C36_ChooserCanAct ==
    gameState.nightDamageSelection # <<>> =>
       /\ IsLivingRealId(gameState, gameState.nightDamageSelection[1].chooserId)
       /\ gameState.nightDamageSelection[1].chooserId
             # gameState.nightDamageSelection[1].targetId

\* C36 for a ghost target: the chooser is a living real participant
C36_GhostTargetChooser ==
    (/\ gameState.nightDamageSelection # <<>>
     /\ FindById(gameState.players, gameState.nightDamageSelection[1].targetId).isGhost)
       => IsLivingRealId(gameState, gameState.nightDamageSelection[1].chooserId)

----------------------------------------------------------------------------
(* C37: the living and their hidden cards                                  *)

\* the seats of the living entities whose cards are all face up
LivingWithoutHiddenCard(players) ==
    {k \in 1..Len(players) :
        /\ ~players[k].isDead
        /\ \A i \in 1..Len(players[k].cards) : players[k].cards[i].isRevealed}

\* ConfessSpec: a dealt game in which the first participant confesses cards of
\* its own hand, one after another, and the host advances the phase
MaxConfessions == 5

Confess ==
    /\ ops < MaxConfessions
    /\ gameState.phase # GAME_OVER
    /\ \E a \in FirstSeat(gameState.players) :
          \E c \in CardChoices(HandOfId(gameState.players, a)) \ {NullId} :
             gameState' = AfterSelfReveal(gameState, a, c)
    /\ ops' = ops + 1
    /\ UNCHANGED <<isHost, wire, deck, shuffleIdx, net, hist>>

ConfessAdvance ==
    /\ gameState.phase \notin {GAME_OVER, NIGHT_RESOLUTION}
    /\ \E u \in {0, RandDen - 1} : gameState' = advancePhase(gameState, u)
    /\ UNCHANGED <<isHost, wire, deck, shuffleIdx, ops, net, hist>>

ConfessNext == Confess \/ ConfessAdvance

ConfessSpec == EngineInit /\ [][ConfessNext]_vars

\* C37: in a running game every living entity holds at least one face-down
\* card
C37_LivingHoldHiddenCard ==
    gameState.phase \notin {LOBBY, GAME_OVER} =>
       LivingWithoutHiddenCard(gameState.players) = {}

\* C37 for the operations other than SELF_REVEAL and the conspiracy: a step
\* that is neither leaves no living entity without a face-down card unless
\* there was one before
C37_LastRevealKills ==
    [][(/\ LivingWithoutHiddenCard(gameState.players) = {}
        /\ HandIds(gameState'.players) = HandIds(gameState.players)
        /\ ~\E a \in Actors(gameState.players) :
              \E c \in CardChoices(HandOfId(gameState.players, a)) :
                 gameState' = AfterSelfReveal(gameState, a, c))
          => LivingWithoutHiddenCard(gameState'.players) = {}]_vars

----------------------------------------------------------------------------
(* C38: the roster of a running game                                       *)

\* the ids of a roster in seating order
SeatIds(players) == [k \in 1..Len(players) |-> players[k].id]

\* the rosters the host's message handlers return for the messages a
\* connection can send: JOIN, REJOIN with a seated or an unknown id, LEAVE,
\* and the loss of the connection
RostersAfterMessage(state, known) ==
    LET conn == ConnIds(state.players)
        ids == IF known THEN {state.players[k].id : k \in 1..Len(state.players)}
               ELSE {StrangerId}
    IN {joinState(state, c, n).players : c \in conn, n \in ids}
       \cup {rejoinState(state, c, id, id).players : c \in conn, id \in ids}
       \cup {leaveState(state, id).players : id \in ids}
       \cup {disconnectState(state, c).players : c \in conn \cup ids}

\* C38: once the game has left LOBBY no message, with a seated or an unknown
\* id, and no step adds an entity to the roster or removes one
C38_RosterFixed ==
    /\ [](gameState.phase # LOBBY =>
             \A known \in BOOLEAN :
                \A roster \in RostersAfterMessage(gameState, known) :
                   SeatIds(roster) = SeatIds(gameState.players))
    /\ [][gameState.phase # LOBBY
             => SeatIds(gameState'.players) = SeatIds(gameState.players)]_vars

\* C38 without the REJOIN of an unknown id: messages naming seated entities
\* and names, and every step, keep the roster of a running game
C38_RosterFixedForSeated ==
    /\ [](gameState.phase # LOBBY =>
             \A roster \in RostersAfterMessage(gameState, TRUE)
                              \cup {joinState(gameState, c, StrangerId).players :
                                       c \in ConnIds(gameState.players)}
                              \cup {leaveState(gameState, StrangerId).players} :
                SeatIds(roster) = SeatIds(gameState.players))
    /\ [][gameState.phase # LOBBY
             => SeatIds(gameState'.players) = SeatIds(gameState.players)]_vars

----------------------------------------------------------------------------
(* C39: the announcement of the end of the game                            *)

\* the positions of the log that announce a winning side
WinEntries(logs) ==
    {i \in 1..Len(logs) : logs[i] \in {WinLog(TOWN_WIN), WinLog(WITCH_WIN)}}

\* C39: the log of a game holds at most one entry 'Town Win!' or
\* 'Witches Win!'
C39_WinLoggedOnce ==
    Cardinality(WinEntries(gameState.logs)) <= 1

\* C39 for the operations other than NIGHT_DAMAGE_SELECT, applied in a game
\* that is not over: a step adds at most one winning-side entry
C39_OneEntryPerStep ==
    [][(/\ gameState.phase # GAME_OVER
        /\ gameState.nightDamageSelection = <<>>)
          => Cardinality(WinEntries(gameState'.logs))
                <= Cardinality(WinEntries(gameState.logs)) + 1]_vars

----------------------------------------------------------------------------
(* C40: control of an entity after a reconnection                          *)

\* case 'ACTION' of handleHostMessage: the action of a message that arrives on
\* the connection connId is processed with connId as the acting id
actionOnConnection(state, connId, action, data) ==
    processPlayerAction(state, connId, action, data, 0)

\* the seats of the real participants of a dealt game whose connection is not
\* the one they joined on
Reconnected(players) ==
    {k \in 1..Len(players) :
        /\ ~players[k].isGhost
        /\ players[k].cards # <<>>
        /\ players[k].id # StrangerId
        /\ ~players[k].isDisconnected
        /\ players[k].peerId # players[k].id}

\* C40: for a participant who has reconnected, an action arriving on its new
\* connection is applied as an action of its entity, and the UPDATE_HAND
\* message of the broadcast with its hand is addressed to the new connection
C40_ReconnectedKeepsControl ==
    \A k \in Reconnected(gameState.players) :
       LET p == gameState.players[k]
       IN /\ \A t \in Targets(gameState.players) :
                actionOnConnection(gameState, p.peerId, "ACCUSE_START",
                                   [NoData EXCEPT !.targetId = t])
                   = processPlayerAction(gameState, p.id, "ACCUSE_START",
                                         [NoData EXCEPT !.targetId = t], 0)
          /\ \E m \in broadcast(gameState, TRUE) :
                m.type = "UPDATE_HAND" /\ m.to = p.peerId /\ m.cards = p.cards

\* C40, the messages of the reconnection itself: a REJOIN by id and a JOIN
\* matched by name after the start are answered on the new connection with a
\* WELCOME naming the entity and an UPDATE_HAND with its hand
C40_HandSentOnReconnect ==
    \A k \in 1..Len(gameState.players) :
       LET p == gameState.players[k]
           c == FreshConn(gameState.players)
           answers == {rejoinMessages(gameState, c, p.name, p.id)}
                         \cup (IF gameState.phase # LOBBY
                               THEN {joinMessages(gameState, c, p.name)} ELSE {})
       IN \A sent \in answers :
             /\ \E m \in sent : m.type = "WELCOME" /\ m.to = c /\ m.playerId = p.id
             /\ \E m \in sent : m.type = "UPDATE_HAND" /\ m.to = c /\ m.cards = p.cards

====
